---- MODULE Spec2Model ----
(***************************************************************************)
(* NYC Eats: the cross-source matcher of build.py (address and borough     *)
(* normalisation, merge_cross_source and its three passes), the            *)
(* enrichment of build (overrides, bounding boxes, ledger flags, dietary   *)
(* tags), the verification ledger of crossref.py (sync_venues,             *)
(* check_<provider>, backfill_<provider>) and the visitor counter of       *)
(* counter/counter.py.                                                     *)
(*                                                                         *)
(* Text is modelled character by character: a string is a sequence of      *)
(* one-character strings, so that the regular expressions of build.py act  *)
(* on what they act on in the program.  The characters the model feeds in  *)
(* are letters, digits, the space and the punctuation . , # - '            *)
(***************************************************************************)
EXTENDS Integers, Sequences, FiniteSets, TLC

VARIABLES
    \* ---- matcher (build.py, merge_cross_source) ----
    venues,            \* the input list; a record is known by its index (its id())
    mpc,               \* position in merge_cross_source
    merged,            \* the output list being built
    unmatched_sla,     \* indices left over by pass 1, in order
    unmatched_dohmh,
    range_merged_sla,  \* claimed sets of pass 2
    range_merged_dohmh,
    geo_merged_sla,    \* claimed sets of pass 3
    geo_merged_dohmh,
    stats,             \* the MergeStats returned
    \* ---- normaliser driver ----
    text,              \* the string handed to _normalize_addr
    once,              \* _normalize_addr(text), once the call was made
    twice,             \* _normalize_addr of that result
    \* ---- ledger (crossref.py) ----
    db,                \* the connection's view of table crossref, in rowid order
    committed,         \* what the last conn.commit() made durable
    call,              \* the check_<provider> or backfill invocation in progress,
                       \* or the last one
    history,           \* the invocation before it
    lastsync,          \* the sync_venues call that has just returned: its argument
                       \* and result, kept until the next check_<provider> starts
    \* ---- visitor counter (counter/counter.py) ----
    _count,            \* the global _count
    _seen_ips,         \* the global _seen_ips
    _lock,             \* the threads inside `with _lock`: none or one
    COUNTER_FILE,      \* the file .counter: whether it exists, the number in it
    IPS_FILE,          \* the file .counter.ips: whether it exists, its lines
    main,              \* position of the process: "load", "serving"
    thr,               \* per request thread: position in _hit, its ip, its result
    loaded,            \* what the last _load read (the line it prints on start)
    crashes,           \* times the process was killed and restarted
    \* ---- enrichment (build.py, build) ----
    all_venues,        \* the list merge_cross_source returned, enriched in place
    bpc,               \* position in build
    drop_coords_keys,  \* the drop_coords entries of overrides.json (none when
                       \* the file is absent)
    XREF_DB,           \* the ledger database file: whether it exists, and what
                       \* get_flags returns from it
    hms_entries,       \* fetch_hms_halal()
    knm_entries        \* fetch_knm_kosher()

mvars == <<venues, mpc, merged, unmatched_sla, unmatched_dohmh, range_merged_sla,
           range_merged_dohmh, geo_merged_sla, geo_merged_dohmh, stats>>
nvars == <<text, once, twice>>
lvars == <<db, committed, call, history, lastsync>>
cvars == <<_count, _seen_ips, _lock, COUNTER_FILE, IPS_FILE, main, thr, loaded,
           crashes>>
evars == <<all_venues, bpc, drop_coords_keys, XREF_DB, hms_entries, knm_entries>>
vars == <<mvars, nvars, lvars, cvars, evars>>

Unset == [set |-> FALSE, val |-> <<>>]
Value(v) == [set |-> TRUE, val |-> v]

-----------------------------------------------------------------------------
(* Characters *)

UpperChars == <<"A","B","C","D","E","F","G","H","I","J","K","L","M",
                "N","O","P","Q","R","S","T","U","V","W","X","Y","Z">>
LowerChars == <<"a","b","c","d","e","f","g","h","i","j","k","l","m",
                "n","o","p","q","r","s","t","u","v","w","x","y","z">>
DigitChars == <<"0","1","2","3","4","5","6","7","8","9">>

IsDigit(c) == \E i \in 1..10 : DigitChars[i] = c
IsLower(c) == \E i \in 1..26 : LowerChars[i] = c
IsUpper(c) == \E i \in 1..26 : UpperChars[i] = c
IsSpace(c) == c = " "
\* \w of the re module, on the model's characters
IsWord(c) == IsDigit(c) \/ IsLower(c) \/ IsUpper(c) \/ c = "_"

LowerChar(c) ==
    IF IsUpper(c) THEN LowerChars[CHOOSE i \in 1..26 : UpperChars[i] = c] ELSE c

\* str.lower()
Lower(s) == [i \in 1..Len(s) |-> LowerChar(s[i])]

RECURSIVE LStrip(_)
LStrip(s) == IF s # <<>> /\ IsSpace(Head(s)) THEN LStrip(Tail(s)) ELSE s

RECURSIVE RStrip(_)
RStrip(s) ==
    IF s # <<>> /\ IsSpace(s[Len(s)]) THEN RStrip(SubSeq(s, 1, Len(s) - 1)) ELSE s

\* str.strip()
Strip(s) == RStrip(LStrip(s))

\* re.sub(r"\s+", " ", s)
RECURSIVE CollapseWs(_)
CollapseWs(s) ==
    IF s = <<>> THEN <<>>
    ELSE IF IsSpace(Head(s)) THEN <<" ">> \o CollapseWs(LStrip(s))
    ELSE <<Head(s)>> \o CollapseWs(Tail(s))

\* s.split(): the maximal runs of non-space characters, in order
RECURSIVE Split(_)
Split(s) ==
    LET t == LStrip(s) IN
    IF t = <<>> THEN <<>>
    ELSE LET n == IF \E i \in 1..Len(t) : IsSpace(t[i])
                  THEN (CHOOSE i \in 1..Len(t) :
                            IsSpace(t[i]) /\ \A j \in 1..(i - 1) : ~IsSpace(t[j])) - 1
                  ELSE Len(t)
         IN <<SubSeq(t, 1, n)>> \o Split(SubSeq(t, n + 1, Len(t)))

\* " ".join(parts)
RECURSIVE Join(_)
Join(parts) ==
    IF parts = <<>> THEN <<>>
    ELSE IF Len(parts) = 1 THEN parts[1]
    ELSE parts[1] \o <<" ">> \o Join(Tail(parts))

AllDigits(t) == t # <<>> /\ \A i \in 1..Len(t) : IsDigit(t[i])

HasPrefix(t, k) == Len(k) <= Len(t) /\ SubSeq(t, 1, Len(k)) = k

DigitValue(c) == (CHOOSE i \in 1..10 : DigitChars[i] = c) - 1

\* int(digits)
RECURSIVE ToInt(_)
ToInt(t) ==
    IF t = <<>> THEN 0
    ELSE 10 * ToInt(SubSeq(t, 1, Len(t) - 1)) + DigitValue(t[Len(t)])

\* str(n) for n >= 0
RECURSIVE IntStr(_)
IntStr(n) ==
    IF n < 10 THEN <<DigitChars[n + 1]>>
    ELSE IntStr(n \div 10) \o <<DigitChars[(n % 10) + 1]>>

-----------------------------------------------------------------------------
(* Normaliser: build.py _normalize, _normalize_addr, _normalize_boro *)

\* re.sub(r"\s+", " ", (s or "").strip().lower())
_normalize(s) == CollapseWs(Strip(Lower(s)))

\* \baka\b at position i
AkaAt(s, i) ==
    /\ i + 2 <= Len(s)
    /\ s[i] = "a" /\ s[i + 1] = "k" /\ s[i + 2] = "a"
    /\ (i = 1 \/ ~IsWord(s[i - 1]))
    /\ (i + 2 = Len(s) \/ ~IsWord(s[i + 3]))

\* re.sub(r"\baka\b.*", "", s): everything from the first aka on is dropped
StripAka(s) ==
    IF \E i \in 1..Len(s) : AkaAt(s, i)
    THEN LET i == CHOOSE i \in 1..Len(s) :
                      AkaAt(s, i) /\ \A j \in 1..(i - 1) : ~AkaAt(s, j)
         IN SubSeq(s, 1, i - 1)
    ELSE s

IsPunct(c) == c \in {".", ",", "#", "-", "'"}

\* re.sub(r"[.,#\-']", " ", s)
ReplacePunct(s) == [i \in 1..Len(s) |-> IF IsPunct(s[i]) THEN " " ELSE s[i]]

Designators ==
    { <<"s","t","e">>, <<"s","u","i","t","e">>, <<"a","p","t">>, <<"u","n","i","t">>,
      <<"f","l">>, <<"f","l","o","o","r">>, <<"r","m">>, <<"r","o","o","m">>, <<"#">> }

\* re.sub(r"\s+(?:ste|suite|apt|unit|fl|floor|rm|room|#)\s*\S*$", "", s) on a
\* single-spaced string, given as its tokens.  The leftmost match starts at the
\* space before the last-but-one token when that token is a designator (\s*
\* takes the space, \S* the last token); otherwise at the space before the last
\* token when a designator is a prefix of it (\S* takes the rest of the token).
StripDesignator(toks) ==
    LET n == Len(toks) IN
    IF n >= 3 /\ toks[n - 1] \in Designators THEN SubSeq(toks, 1, n - 2)
    ELSE IF n >= 2 /\ \E k \in Designators : HasPrefix(toks[n], k)
         THEN SubSeq(toks, 1, n - 1)
    ELSE toks

\* \d*[a-z]\d*
IsUnitToken(t) ==
    \E i \in 1..Len(t) :
        IsLower(t[i]) /\ \A j \in (1..Len(t)) \ {i} : IsDigit(t[j])

\* re.sub(r"\s+\d*[a-z]\d*$", "", s)
StripUnit(toks) ==
    LET n == Len(toks) IN
    IF n >= 2 /\ IsUnitToken(toks[n]) THEN SubSeq(toks, 1, n - 1) ELSE toks

\* re.sub(r"\s+\d+$", "", s)
StripTrailingNumber(toks) ==
    LET n == Len(toks) IN
    IF n >= 2 /\ AllDigits(toks[n]) THEN SubSeq(toks, 1, n - 1) ELSE toks

OrdinalSuffixes == { <<"s","t">>, <<"n","d">>, <<"r","d">>, <<"t","h">> }

\* re.sub(r"\b(\d+)(?:st|nd|rd|th)\b", r"\1", s) on one token of word characters
StripOrdinal(t) ==
    IF Len(t) >= 3 /\ SubSeq(t, Len(t) - 1, Len(t)) \in OrdinalSuffixes
                   /\ AllDigits(SubSeq(t, 1, Len(t) - 2))
    THEN SubSeq(t, 1, Len(t) - 2)
    ELSE t

_SUFFIXES ==
    { <<<<"s","t">>, <<"s","t","r","e","e","t">>>>,
      <<<<"s","t","r">>, <<"s","t","r","e","e","t">>>>,
      <<<<"a","v","e">>, <<"a","v","e","n","u","e">>>>,
      <<<<"a","v">>, <<"a","v","e","n","u","e">>>>,
      <<<<"b","l","v","d">>, <<"b","o","u","l","e","v","a","r","d">>>>,
      <<<<"b","v","d">>, <<"b","o","u","l","e","v","a","r","d">>>>,
      <<<<"d","r">>, <<"d","r","i","v","e">>>>,
      <<<<"l","n">>, <<"l","a","n","e">>>>,
      <<<<"p","l">>, <<"p","l","a","c","e">>>>,
      <<<<"r","d">>, <<"r","o","a","d">>>>,
      <<<<"c","t">>, <<"c","o","u","r","t">>>>,
      <<<<"c","i","r">>, <<"c","i","r","c","l","e">>>>,
      <<<<"t","e","r">>, <<"t","e","r","r","a","c","e">>>>,
      <<<<"t","e","r","r">>, <<"t","e","r","r","a","c","e">>>>,
      <<<<"p","k","w","y">>, <<"p","a","r","k","w","a","y">>>>,
      <<<<"p","k","y">>, <<"p","a","r","k","w","a","y">>>>,
      <<<<"h","w","y">>, <<"h","i","g","h","w","a","y">>>>,
      <<<<"h","g","w","y">>, <<"h","i","g","h","w","a","y">>>>,
      <<<<"s","q">>, <<"s","q","u","a","r","e">>>>,
      <<<<"t","p","k","e">>, <<"t","u","r","n","p","i","k","e">>>>,
      <<<<"e","x","p","y">>, <<"e","x","p","r","e","s","s","w","a","y">>>>,
      <<<<"e","x","p","w","y">>, <<"e","x","p","r","e","s","s","w","a","y">>>>,
      <<<<"e">>, <<"e","a","s","t">>>>,
      <<<<"w">>, <<"w","e","s","t">>>>,
      <<<<"n">>, <<"n","o","r","t","h">>>>,
      <<<<"s">>, <<"s","o","u","t","h">>>>,
      <<<<"s","a","i","n","t">>, <<"s","t">>>> }

\* _SUFFIXES.get(p, p)
ExpandSuffix(p) ==
    IF \E e \in _SUFFIXES : e[1] = p
    THEN (CHOOSE e \in _SUFFIXES : e[1] = p)[2]
    ELSE p

\* The tokens of _normalize_addr(s); the string returned is their Join.
NormAddrTokens(s) ==
    LET s1 == _normalize(s)
        s2 == StripAka(s1)
        s3 == ReplacePunct(s2)
        t4 == Split(s3)                  \* re.sub(r"\s+", " ", s).strip()
        t5 == StripDesignator(t4)
        t6 == StripUnit(t5)
        t7 == StripTrailingNumber(t6)
        t8 == [i \in 1..Len(t7) |-> StripOrdinal(t7[i])]
    IN [i \in 1..Len(t8) |-> ExpandSuffix(t8[i])]

_normalize_addr(s) == Join(NormAddrTokens(s))

_BORO_ALIASES ==
    { <<<<"m","a","n","h","a","t","t","a","n">>, <<"m","a","n","h","a","t","t","a","n">>>>,
      <<<<"n","e","w"," ","y","o","r","k">>, <<"m","a","n","h","a","t","t","a","n">>>>,
      <<<<"n","y">>, <<"m","a","n","h","a","t","t","a","n">>>>,
      <<<<"b","r","o","o","k","l","y","n">>, <<"b","r","o","o","k","l","y","n">>>>,
      <<<<"b","k","l","y","n">>, <<"b","r","o","o","k","l","y","n">>>>,
      <<<<"k","i","n","g","s">>, <<"b","r","o","o","k","l","y","n">>>>,
      <<<<"q","u","e","e","n","s">>, <<"q","u","e","e","n","s">>>>,
      <<<<"b","r","o","n","x">>, <<"b","r","o","n","x">>>>,
      <<<<"t","h","e"," ","b","r","o","n","x">>, <<"b","r","o","n","x">>>>,
      <<<<"s","t","a","t","e","n"," ","i","s","l","a","n","d">>,
        <<"s","t","a","t","e","n"," ","i","s","l","a","n","d">>>>,
      <<<<"r","i","c","h","m","o","n","d">>,
        <<"s","t","a","t","e","n"," ","i","s","l","a","n","d">>>> }

\* _BORO_ALIASES.get(k, k) with k = (s or "").strip().lower()
_normalize_boro(s) ==
    LET k == Lower(Strip(s)) IN
    IF \E e \in _BORO_ALIASES : e[1] = k
    THEN (CHOOSE e \in _BORO_ALIASES : e[1] = k)[2]
    ELSE k

-----------------------------------------------------------------------------
(* Address parsing: build.py _parse_range, _parse_single_number *)

NoParse == [ok |-> FALSE]

\* _re.match(r"^\d+-\d+", raw): a Queens block-lot prefix
IsBlockLot(raw) ==
    \E i \in 1..Len(raw) :
        /\ \A j \in 1..i : IsDigit(raw[j])
        /\ i + 2 <= Len(raw)
        /\ raw[i + 1] = "-"
        /\ IsDigit(raw[i + 2])

\* mutant of RangeOf: a spread of 30 is already too wide
RangeOfTight(toks) ==
    IF Len(toks) >= 3 /\ AllDigits(toks[1]) /\ AllDigits(toks[2])
    THEN IF ToInt(toks[2]) >= ToInt(toks[1]) /\ (ToInt(toks[2]) - ToInt(toks[1])) < 30
         THEN [ok |-> TRUE, lo |-> ToInt(toks[1]), hi |-> ToInt(toks[2]),
               street |-> Join(SubSeq(toks, 3, Len(toks)))]
         ELSE NoParse
    ELSE NoParse

\* _RANGE_RE = ^(\d+)\s+(\d+)\s+(.+)$ on the words of the normalised address
RangeOf(toks) ==
    IF Len(toks) >= 3 /\ AllDigits(toks[1]) /\ AllDigits(toks[2])
    THEN IF ToInt(toks[2]) >= ToInt(toks[1]) /\ (ToInt(toks[2]) - ToInt(toks[1])) <= 30
         THEN [ok |-> TRUE, lo |-> ToInt(toks[1]), hi |-> ToInt(toks[2]),
               street |-> Join(SubSeq(toks, 3, Len(toks)))]
         ELSE NoParse
    ELSE NoParse

\* mutant of _parse_range: no block-lot test
_parse_rangeAny(raw_addr) == RangeOf(Split(_normalize_addr(Strip(raw_addr))))

_parse_range(raw_addr) ==
    IF IsBlockLot(Strip(raw_addr)) THEN NoParse
    ELSE RangeOf(Split(_normalize_addr(Strip(raw_addr))))

\* _SINGLE_RE = ^(\d+)\s+(.+)$
_parse_single_number(normed_addr) ==
    LET toks == Split(normed_addr) IN
    IF Len(toks) >= 2 /\ AllDigits(toks[1])
    THEN [ok |-> TRUE, num |-> ToInt(toks[1]),
          street |-> Join(SubSeq(toks, 2, Len(toks)))]
    ELSE NoParse

-----------------------------------------------------------------------------
(* difflib.SequenceMatcher(None, a, b).ratio(), as 2*M / T with M the number  *)
(* of matched characters and T = len(a) + len(b).  No junk; the autojunk      *)
(* heuristic needs 200 characters and never applies to the model's names.     *)

RECURSIVE RunLen(_, _, _, _, _, _)
RunLen(a, b, i, j, ahi, bhi) ==
    IF i <= ahi /\ j <= bhi /\ a[i] = b[j]
    THEN 1 + RunLen(a, b, i + 1, j + 1, ahi, bhi)
    ELSE 0

\* find_longest_match: the longest block, earliest in a, then earliest in b
LongestMatch(a, b, alo, ahi, blo, bhi) ==
    LET cands == (alo..ahi) \X (blo..bhi)
        len(c) == RunLen(a, b, c[1], c[2], ahi, bhi)
    IN  IF \A c \in cands : len(c) = 0 THEN <<alo, blo, 0>>
        ELSE LET c == CHOOSE c \in cands :
                        /\ \A e \in cands : len(e) <= len(c)
                        /\ \A e \in cands :
                              len(e) = len(c) =>
                                  \/ c[1] < e[1]
                                  \/ (c[1] = e[1] /\ c[2] <= e[2])
             IN <<c[1], c[2], len(c)>>

\* get_matching_blocks: the longest block, then the same to its left and right
RECURSIVE MatchCount(_, _, _, _, _, _)
MatchCount(a, b, alo, ahi, blo, bhi) ==
    IF alo > ahi \/ blo > bhi THEN 0
    ELSE LET m == LongestMatch(a, b, alo, ahi, blo, bhi) IN
         IF m[3] = 0 THEN 0
         ELSE m[3] + MatchCount(a, b, alo, m[1] - 1, blo, m[2] - 1)
                   + MatchCount(a, b, m[1] + m[3], ahi, m[2] + m[3], bhi)

\* ratio() >= pct / 100; ratio() is 1.0 when both strings are empty
RatioAtLeast(a, b, pct) ==
    LET T == Len(a) + Len(b) IN
    IF T = 0 THEN TRUE
    ELSE 200 * MatchCount(a, b, 1, Len(a), 1, Len(b)) >= pct * T

-----------------------------------------------------------------------------
(* Geometry.  A coordinate is an integer number of 1e-5 degrees, 0 standing   *)
(* for an absent (None or 0.0) value, which `if lat and lng` treats alike.    *)

GEO_RADIUS_M == 30
GEO_NAME_THRESHOLD == 35      \* 0.35, in hundredths
CELL == 30                    \* 0.0003 degrees

\* int(x / CELL): truncation towards zero
CellOf(x) == IF x >= 0 THEN x \div CELL ELSE -((-x) \div CELL)

\* _haversine_m squared, in cm^2, for points a few cells apart at New York's
\* latitude: 1e-5 degree of latitude is R*pi/180*1e-5 = 1.112 m and 1e-5 degree
\* of longitude is cos(40.71 deg) times that, 0.843 m.
_haversine_m(lat1, lon1, lat2, lon2) ==
    (111 * (lat2 - lat1)) * (111 * (lat2 - lat1))
      + (84 * (lon2 - lon1)) * (84 * (lon2 - lon1))

\* mutant of WithinRadius: a radius of 35 m
WithinRadiusWide(d2) == d2 <= 3500 * 3500

\* d <= GEO_RADIUS_M for a squared distance in cm^2
WithinRadius(d2) == d2 <= (100 * GEO_RADIUS_M) * (100 * GEO_RADIUS_M)

Infinity == -1                \* float("inf") for best_dist
CloserThan(d2, best) == best = Infinity \/ d2 < best

-----------------------------------------------------------------------------
(* Matcher: build.py merge_cross_source.  A record is                         *)
(* [source, address, borough, lat, lng, name]; the program tells records      *)
(* apart by object identity, the model by their index in the input list.      *)

HasCoords(v) == v.lat # 0 /\ v.lng # 0

\* mutant of KeyOf: the borough is bucketed without its alias table
KeyOfNoAlias(vs, i) ==
    LET addr == _normalize_addr(vs[i].address)
        boro == Lower(Strip(vs[i].borough))
    IN  IF addr # <<>> THEN [addr |-> addr, boro |-> boro, id |-> 0]
        ELSE [addr |-> <<>>, boro |-> <<>>, id |-> i]

\* the by_key bucket of record i: (addr, boro), or a bucket of its own when the
\* normalised address is empty ("_noaddr_" + str(id(v)))
KeyOf(vs, i) ==
    LET addr == _normalize_addr(vs[i].address)
        boro == _normalize_boro(vs[i].borough)
    IN  IF addr # <<>> THEN [addr |-> addr, boro |-> boro, id |-> 0]
        ELSE [addr |-> <<>>, boro |-> <<>>, id |-> i]

\* list(dict.fromkeys(q)): the first occurrence of each element, in order
Dedup(q) ==
    LET First(k) == \A j \in 1..(k - 1) : q[j] # q[k]
    IN  [n \in 1..Cardinality({k \in 1..Len(q) : First(k)}) |->
            q[CHOOSE k \in 1..Len(q) :
                  First(k) /\ Cardinality({j \in 1..k : First(j)}) = n]]

\* a dict is a function from its keys; dict(a).update(b)
NoMeta == [k \in {} |-> <<>>]
Update(a, b) ==
    [k \in DOMAIN a \cup DOMAIN b |-> IF k \in DOMAIN b THEN b[k] ELSE a[k]]

\* the order of str comparison on the characters of an ISO date
DateChars == <<"-", "0", "1", "2", "3", "4", "5", "6", "7", "8", "9">>
CharRank(c) == CHOOSE k \in 1..Len(DateChars) : DateChars[k] = c

\* a < b for two str
StrLess(a, b) ==
    \E i \in 1..(Len(b)) :
        /\ \A j \in 1..(i - 1) : j <= Len(a) /\ a[j] = b[j]
        /\ \/ i > Len(a)
           \/ CharRank(a[i]) < CharRank(b[i])

\* min(a, b) for two str
StrMin(a, b) == IF StrLess(b, a) THEN b ELSE a

\* lines 142-148: the "opened" of the combined dict ("" for an absent key)
Opened(d_opened, s_opened) ==
    IF d_opened # <<>> /\ s_opened # <<>> THEN StrMin(d_opened, s_opened)
    ELSE IF s_opened # <<>> THEN s_opened
    ELSE d_opened

\* mutant of _make_combined: the two tag lists are concatenated as they are
_make_combinedNoDedup(dohmh_v, sla_v) ==
    [dohmh_v EXCEPT !.source = "both",
                    !.sla_name = sla_v.name,
                    !.tags = dohmh_v.tags \o sla_v.tags,
                    !.meta = Update(dohmh_v.meta, sla_v.meta),
                    !.opened = Opened(dohmh_v.opened, sla_v.opened)]

\* the dict _make_combined returns: a copy of dohmh_v with source, sla_name,
\* tags, meta and opened set (an absent sla_name is "", absent tags are [],
\* an absent meta is {}, an absent opened is "")
_make_combined(dohmh_v, sla_v) ==
    [dohmh_v EXCEPT !.source = "both",
                    !.sla_name = sla_v.name,
                    !.tags = Dedup(dohmh_v.tags \o sla_v.tags),
                    !.meta = Update(dohmh_v.meta, sla_v.meta),
                    !.opened = Opened(dohmh_v.opened, sla_v.opened)]

\* entries of the output list: the record emitted, the input records it was
\* made of, and the pass that made it (0 for a record passed through)
Combined(vs, d, s, p) ==
    [rec |-> _make_combined(vs[d], vs[s]), of |-> <<d, s>>, pass |-> p]
Single(vs, i) == [rec |-> vs[i], of |-> <<i>>, pass |-> 0]
Singles(vs, is) == [k \in 1..Len(is) |-> Single(vs, is[k])]

FirstWith(vs, g, src) ==
    g[CHOOSE k \in 1..Len(g) :
          vs[g[k]].source = src /\ \A j \in 1..(k - 1) : vs[g[j]].source # src]

\* mutant of Pass1Group: every record that is not an sla record counts as dohmh
Pass1GroupLoose(vs, g, acc) ==
    LET IsSla(i) == vs[i].source = "sla"
        IsDohmh(i) == ~IsSla(i)
    IN  IF (\E k \in 1..Len(g) : IsDohmh(g[k])) /\ (\E k \in 1..Len(g) : IsSla(g[k]))
        THEN LET d == g[CHOOSE k \in 1..Len(g) :
                          IsDohmh(g[k]) /\ \A j \in 1..(k - 1) : ~IsDohmh(g[j])]
                 s == FirstWith(vs, g, "sla")
                 Rest(i) == i # d /\ i # s
             IN  [acc EXCEPT !.merged = @ \o <<Combined(vs, d, s, 1)>>
                                          \o Singles(vs, SelectSeq(g, Rest)),
                             !.pass1 = @ + 1]
        ELSE [acc EXCEPT !.sla = @ \o SelectSeq(g, IsSla),
                         !.dohmh = @ \o SelectSeq(g, IsDohmh)]

\* lines 230-247: one bucket of pass 1
Pass1Group(vs, g, acc) ==
    LET srcs == {vs[g[k]].source : k \in 1..Len(g)}
        IsSla(i) == vs[i].source = "sla"
        IsDohmh(i) == vs[i].source = "dohmh"
        IsOther(i) == ~IsSla(i) /\ ~IsDohmh(i)
    IN  IF "dohmh" \in srcs /\ "sla" \in srcs
        THEN LET d == FirstWith(vs, g, "dohmh")
                 s == FirstWith(vs, g, "sla")
                 Rest(i) == i # d /\ i # s
             IN  [acc EXCEPT !.merged = @ \o <<Combined(vs, d, s, 1)>>
                                          \o Singles(vs, SelectSeq(g, Rest)),
                             !.pass1 = @ + 1]
        ELSE [acc EXCEPT !.sla = @ \o SelectSeq(g, IsSla),
                         !.dohmh = @ \o SelectSeq(g, IsDohmh),
                         !.merged = @ \o Singles(vs, SelectSeq(g, IsOther))]

\* by_key.items(): the buckets in order of first appearance
RECURSIVE Pass1Loop(_, _, _)
Pass1Loop(vs, i, acc) ==
    IF i > Len(vs) THEN acc
    ELSE IF \E j \in 1..(i - 1) : KeyOf(vs, j) = KeyOf(vs, i)
         THEN Pass1Loop(vs, i + 1, acc)
    ELSE LET InGroup(j) == KeyOf(vs, j) = KeyOf(vs, i)
             g == SelectSeq([j \in 1..Len(vs) |-> j], InGroup)
         IN  Pass1Loop(vs, i + 1, Pass1Group(vs, g, acc))

\* dohmh_by_street[(street, boro)]: the unmatched dohmh records with a single
\* house number on that street, in order
StreetCandidates(vs, ud, street, boro) ==
    LET On(i) ==
            LET parsed == _parse_single_number(_normalize_addr(vs[i].address))
            IN  /\ parsed.ok
                /\ parsed.street = street
                /\ _normalize_boro(vs[i].borough) = boro
    IN  SelectSeq(ud, On)

HouseNumber(vs, i) == _parse_single_number(_normalize_addr(vs[i].address)).num

\* mutant of RangeAccepts: a candidate already claimed is taken again
RangeAcceptsClaimed(lo, hi, num, claimed) == lo <= num /\ num <= hi

\* mutant of RangeAccepts: the upper end of the range is left out
RangeAcceptsHalfOpen(lo, hi, num, claimed) == lo <= num /\ num < hi /\ ~claimed

\* line 272: the test a candidate of pass 2 must pass
RangeAccepts(lo, hi, num, claimed) == lo <= num /\ num <= hi /\ ~claimed

\* lines 267-272: the candidates of a range that pass the test, in order
Pass2Hits(vs, ud, rng, boro, claimed) ==
    LET Ok(i) == RangeAccepts(rng.lo, rng.hi, HouseNumber(vs, i), i \in claimed)
    IN  SelectSeq(StreetCandidates(vs, ud, rng.street, boro), Ok)

\* lines 273-276: the first of them is combined with the sla record, then break
Pass2Claim(vs, s, hits, acc) ==
    IF hits = <<>> THEN acc
    ELSE [merged |-> acc.merged \o <<Combined(vs, hits[1], s, 2)>>,
          sla    |-> acc.sla \cup {s},
          dohmh  |-> acc.dohmh \cup {hits[1]}]

\* lines 265-276: one sla record of pass 2
Pass2One(vs, ud, s, rng, acc) ==
    IF ~rng.ok THEN acc
    ELSE Pass2Claim(vs, s,
             Pass2Hits(vs, ud, rng, _normalize_boro(vs[s].borough), acc.dohmh), acc)

\* lines 264-276
RECURSIVE Pass2Loop(_, _, _, _, _)
Pass2Loop(vs, us, ud, k, acc) ==
    IF k > Len(us) THEN acc
    ELSE Pass2Loop(vs, us, ud, k + 1,
             Pass2One(vs, ud, us[k], _parse_range(vs[us[k]].address), acc))

\* mutant of StillOf: the claimed records are not filtered out
StillOfAll(unmatched, claimed) == unmatched

\* lines 281-282 and 331-336: the records of a list that were not claimed
StillOf(unmatched, claimed) ==
    LET Free(i) == i \notin claimed IN SelectSeq(unmatched, Free)

GridCell(v) == <<CellOf(v.lat), CellOf(v.lng)>>

\* for di in (-1, 0, 1): for dj in (-1, 0, 1)
Neighbourhood == << <<-1, -1>>, <<-1, 0>>, <<-1, 1>>,
                    <<0, -1>>,  <<0, 0>>,  <<0, 1>>,
                    <<1, -1>>,  <<1, 0>>,  <<1, 1>> >>

\* the records of dohmh_geo_grid the scan of sla record s visits, in order
RECURSIVE ScanOrder(_, _, _, _)
ScanOrder(vs, sd, cell, n) ==
    IF n > Len(Neighbourhood) THEN <<>>
    ELSE LET at == <<cell[1] + Neighbourhood[n][1], cell[2] + Neighbourhood[n][2]>>
             In(i) == HasCoords(vs[i]) /\ GridCell(vs[i]) = at
         IN  SelectSeq(sd, In) \o ScanOrder(vs, sd, cell, n + 1)

\* lines 312-322: the inner loop over the candidates
RECURSIVE ScanBest(_, _, _, _, _, _)
ScanBest(vs, s, cands, k, claimed, best) ==
    IF k > Len(cands) THEN best
    ELSE LET dv == cands[k]
             d  == _haversine_m(vs[s].lat, vs[s].lng, vs[dv].lat, vs[dv].lng)
         IN  IF dv \in claimed THEN ScanBest(vs, s, cands, k + 1, claimed, best)
             ELSE IF /\ CloserThan(d, best.dist)
                     /\ RatioAtLeast(_normalize(vs[s].name), _normalize(vs[dv].name),
                                     GEO_NAME_THRESHOLD)
                  THEN ScanBest(vs, s, cands, k + 1, claimed,
                                [dist |-> d, match |-> dv])
             ELSE ScanBest(vs, s, cands, k + 1, claimed, best)

\* lines 301-326
RECURSIVE Pass3Loop(_, _, _, _, _)
Pass3Loop(vs, ss, sd, k, acc) ==
    IF k > Len(ss) THEN acc
    ELSE LET s == ss[k] IN
         IF ~HasCoords(vs[s]) THEN Pass3Loop(vs, ss, sd, k + 1, acc)
         ELSE LET best == ScanBest(vs, s, ScanOrder(vs, sd, GridCell(vs[s]), 1), 1,
                                   acc.dohmh, [dist |-> Infinity, match |-> 0])
              IN  IF best.match # 0 /\ WithinRadius(best.dist)
                  THEN Pass3Loop(vs, ss, sd, k + 1,
                           [merged |-> acc.merged \o <<Combined(vs, best.match, s, 3)>>,
                            sla    |-> acc.sla \cup {s},
                            dohmh  |-> acc.dohmh \cup {best.match}])
                  ELSE Pass3Loop(vs, ss, sd, k + 1, acc)

NoStats == [pre_merge |-> 0, pass1 |-> 0, pass2 |-> 0, pass3 |-> 0,
            total_merges |-> 0, post_merge |-> 0]

\* lines 215-249: bucketing and pass 1
Pass1 ==
    /\ mpc = "pass1"
    /\ LET r == Pass1Loop(venues, 1,
                    [merged |-> <<>>, sla |-> <<>>, dohmh |-> <<>>, pass1 |-> 0])
       IN  /\ merged' = r.merged
           /\ unmatched_sla' = r.sla
           /\ unmatched_dohmh' = r.dohmh
           /\ stats' = [stats EXCEPT !.pass1 = r.pass1]
    /\ mpc' = "pass2"
    /\ UNCHANGED <<venues, range_merged_sla, range_merged_dohmh,
                   geo_merged_sla, geo_merged_dohmh, nvars, lvars, cvars, evars>>

\* lines 251-278: pass 2
Pass2 ==
    /\ mpc = "pass2"
    /\ LET r == Pass2Loop(venues, unmatched_sla, unmatched_dohmh, 1,
                    [merged |-> merged, sla |-> {}, dohmh |-> {}])
       IN  /\ merged' = r.merged
           /\ range_merged_sla' = r.sla
           /\ range_merged_dohmh' = r.dohmh
    /\ mpc' = "pass3"
    /\ UNCHANGED <<venues, unmatched_sla, unmatched_dohmh, geo_merged_sla,
                   geo_merged_dohmh, stats, nvars, lvars, cvars, evars>>

\* lines 280-328: pass 3
Pass3 ==
    /\ mpc = "pass3"
    /\ LET still_sla   == StillOf(unmatched_sla, range_merged_sla)
           still_dohmh == StillOf(unmatched_dohmh, range_merged_dohmh)
           r == Pass3Loop(venues, still_sla, still_dohmh, 1,
                    [merged |-> merged, sla |-> {}, dohmh |-> {}])
       IN  /\ merged' = r.merged
           /\ geo_merged_sla' = r.sla
           /\ geo_merged_dohmh' = r.dohmh
    /\ mpc' = "emit"
    /\ UNCHANGED <<venues, unmatched_sla, unmatched_dohmh, range_merged_sla,
                   range_merged_dohmh, stats, nvars, lvars, cvars, evars>>

\* lines 330-347: the remaining records and the statistics
Emit ==
    /\ mpc = "emit"
    /\ LET still_sla   == StillOf(unmatched_sla, range_merged_sla)
           still_dohmh == StillOf(unmatched_dohmh, range_merged_dohmh)
           out == merged \o Singles(venues, StillOf(still_sla, geo_merged_sla))
                         \o Singles(venues, StillOf(still_dohmh, geo_merged_dohmh))
           total == stats.pass1 + Cardinality(range_merged_sla)
                                + Cardinality(geo_merged_sla)
       IN  /\ merged' = out
           /\ stats' = [pre_merge    |-> Len(venues),
                        pass1        |-> stats.pass1,
                        pass2        |-> Cardinality(range_merged_sla),
                        pass3        |-> Cardinality(geo_merged_sla),
                        total_merges |-> total,
                        post_merge   |-> Len(out)]
    /\ mpc' = "done"
    /\ UNCHANGED <<venues, unmatched_sla, unmatched_dohmh, range_merged_sla,
                   range_merged_dohmh, geo_merged_sla, geo_merged_dohmh,
                   nvars, lvars, cvars, evars>>

NextMerge == Pass1 \/ Pass2 \/ Pass3 \/ Emit

-----------------------------------------------------------------------------
(* Inputs of the matcher *)

MaxVenues == 3        \* longest input list of SpecMerge
MaxHouse == 22        \* house numbers run from 9 to MaxHouse

\* a point of Manhattan, two units inside its grid cell in both directions
Origin == [lat |-> 4071272, lng |-> -7400612]
At(dlat, dlng) == [lat |-> Origin.lat + dlat, lng |-> Origin.lng + dlng]
Nowhere == [lat |-> 0, lng |-> 0]

Venue(src, addr, boro, pt, nm) ==
    [source |-> src, address |-> addr, borough |-> boro,
     lat |-> pt.lat, lng |-> pt.lng, name |-> nm, sla_name |-> <<>>,
     tags |-> <<>>, meta |-> NoMeta, opened |-> <<>>]

\* the same record with its descriptive fields filled in
Described(v, tags, meta, opened) ==
    [v EXCEPT !.tags = tags, !.meta = meta, !.opened = opened]

MainSt == <<" ","m","a","i","n"," ","s","t">>
AddrRange == <<"1","0"," ","2","0"," ","M","A","I","N"," ","S","T">>
AddrMid == <<"1","5"," ","M","a","i","n"," ","S","t",".">>
AddrMidFull == <<"1","5"," ","M","A","I","N"," ","S","T","R","E","E","T">>
AddrBeyond == <<"2","1"," ","m","a","i","n"," ","s","t">>
AddrBlockLot == <<"1","0","-","2","0"," ","M","A","I","N"," ","S","T">>
AddrNone == <<>>
AddrHouse(n) == IntStr(n) \o MainSt

Manhattan == <<"M","a","n","h","a","t","t","a","n">>
ManhattanUpper == <<"M","A","N","H","A","T","T","A","N">>
NewYork == <<" ","N","Y">>
Brooklyn == <<"B","r","o","o","k","l","y","n">>

Joes == <<"J","o","e","s">>
JoesPizza == <<"j","o","e","s"," "," ","p","i","z","z","a">>
TeaHouse == <<"T","e","a">>

\* SpecMerge: lists of up to MaxVenues records out of these
VenuePool ==
    { Venue("dohmh", AddrMid, ManhattanUpper, At(9, 0), JoesPizza),
      Venue("dohmh", AddrBeyond, Manhattan, At(26, 0), JoesPizza),
      Venue("dohmh", AddrNone, Brooklyn, Nowhere, TeaHouse),
      Venue("sla", AddrMidFull, NewYork, At(0, 0), Joes),
      Venue("sla", AddrRange, Manhattan, At(0, 0), Joes),
      Venue("sla", AddrNone, Brooklyn, At(0, 0), Joes),
      Described(Venue("greenmarket", AddrMidFull, Manhattan, At(0, 0), TeaHouse),
                <<"market">>, NoMeta, <<>>),
      Venue("dpr", AddrRange, Manhattan, Nowhere, Joes),
      Venue("sla", AddrBlockLot, Manhattan, Nowhere, Joes),
      Venue("dohmh", AddrNone, Brooklyn, At(3, 0), TeaHouse) }

\* SpecPair: one Authority (dohmh) record and one License (sla) record
AuthorityPool ==
    { Venue("dohmh", a, b, p, n) :
        a \in {AddrHouse(h) : h \in 9..MaxHouse} \cup {AddrMid, AddrNone},
        b \in {ManhattanUpper, Brooklyn},
        p \in {At(dlat, dlng) : dlat \in {0, 9, 26, 28}, dlng \in {-34, 0, 34}}
                \cup {Nowhere},
        n \in {JoesPizza, TeaHouse} }

LicensePool ==
    { Venue("sla", a, b, p, Joes) :
        a \in {AddrRange, AddrMidFull, AddrNone},
        b \in {Manhattan, NewYork},
        p \in {At(0, 0), Nowhere} }

SeqsUpTo(S, n) == UNION {[1..k -> S] : k \in 1..n}

\* SpecCombine: a dohmh and an sla record that pass 1, pass 2 or pass 3
\* combines, with their tags, meta and opened date (YYYY-MM-DD) filled in
Date(y, m, d) == IntStr(y) \o <<"-">> \o m \o <<"-">> \o d

TagLists == { <<>>, <<"bar", "food">>, <<"liquor", "bar">> }
MetaDicts == { NoMeta, [grade |-> "A", phone |-> "1"], [license |-> "OP", phone |-> "2"] }
OpenedDates == { <<>>, Date(2019, <<"1","1">>, <<"2","0">>) }
OpenedDatesSla == { <<>>, Date(2019, <<"0","3">>, <<"0","1">>),
                    Date(2020, <<"0","1">>, <<"0","5">>) }

\* SpecRange: an sla record at "lo hi main st" and a dohmh record at a house of
\* main st, 10 m away or without coordinates
RangeLows == {10, 11}
RangeSpreads == {-2, -1, 0, 1, 29, 30, 31}
RangeHouses == {9, 10, 11, 40, 41, 42}
AddrSpan(lo, hi) == IntStr(lo) \o <<" ">> \o IntStr(hi) \o MainSt

RangeAuthorityPool ==
    { Venue("dohmh", AddrHouse(n), Manhattan, p, JoesPizza) :
        n \in RangeHouses, p \in {At(9, 0), Nowhere} }

RangeLicensePool ==
    { Venue("sla", AddrSpan(lo, lo + d), Manhattan, At(0, 0), Joes) :
        lo \in RangeLows, d \in RangeSpreads }

CombineAuthorityPool ==
    { Described(Venue("dohmh", AddrMid, ManhattanUpper, At(9, 0), JoesPizza), t, m, o) :
        t \in TagLists, m \in MetaDicts, o \in OpenedDates }

CombineLicensePool ==
    { Described(v, t, m, o) :
        v \in { Venue("sla", AddrMidFull, NewYork, Nowhere, Joes),
                Venue("sla", AddrRange, Manhattan, Nowhere, Joes),
                Venue("sla", AddrNone, Brooklyn, At(0, 0), Joes) },
        t \in TagLists, m \in MetaDicts, o \in OpenedDatesSla }

-----------------------------------------------------------------------------
(* Specifications of the matcher *)

MergeStart ==
    /\ mpc = "pass1"
    /\ merged = <<>>
    /\ unmatched_sla = <<>>
    /\ unmatched_dohmh = <<>>
    /\ range_merged_sla = {}
    /\ range_merged_dohmh = {}
    /\ geo_merged_sla = {}
    /\ geo_merged_dohmh = {}
    /\ stats = NoStats

NoLedger == [exists |-> FALSE, flags |-> <<>>]
EnrichIdle ==
    /\ all_venues = <<>>
    /\ bpc = "idle"
    /\ drop_coords_keys = {}
    /\ XREF_DB = NoLedger
    /\ hms_entries = <<>>
    /\ knm_entries = <<>>

NormIdle == text = <<>> /\ once = Unset /\ twice = Unset

\* limit: int | None = None
NoLimit == [given |-> FALSE, n |-> 0]
Limit(n) == [given |-> TRUE, n |-> n]
\* borough_filter = ""
NoFilter == <<>>

\* no check_<provider> or backfill invocation yet
NoCall ==
    [ n |-> 0, fills |-> 0, kind |-> "none", active |-> FALSE, p |-> "none",
      limit |-> NoLimit, filter |-> NoFilter,
      rows |-> <<>>, pos |-> 0, checked |-> 0, before |-> 0, moved |-> 0,
      lookups |-> <<>>, cands |-> <<>>, limited |-> 0, failed |-> <<>>,
      allok |-> TRUE, ret |-> 0, synced |-> FALSE ]

\* the last call was not sync_venues
NoSync == [called |-> FALSE, venues |-> <<>>, new |-> 0, repeat |-> FALSE]

LedgerIdle ==
    /\ db = <<>>
    /\ committed = <<>>
    /\ call = NoCall
    /\ history = NoCall
    /\ lastsync = NoSync

\* counter.py as imported: lines 22-24, no file written yet
MaxThreads == 2
Threads == 1..MaxThreads
Free == {}
NoCounterFile == [exists |-> FALSE, text |-> 0]
NoIpsFile == [exists |-> FALSE, lines |-> {}]
NoRet == [path |-> "none", count |-> 0, new |-> FALSE]
NoLoad == [done |-> FALSE, count |-> 0, ips |-> {}]
Idle(ip) == [pc |-> "idle", ip |-> ip, ret |-> NoRet]
NoIp == "none"

CounterIdle ==
    /\ _count = 0
    /\ _seen_ips = {}
    /\ _lock = Free
    /\ COUNTER_FILE = NoCounterFile
    /\ IPS_FILE = NoIpsFile
    /\ main = "load"
    /\ thr = [t \in Threads |-> Idle(NoIp)]
    /\ loaded = NoLoad
    /\ crashes = 0

InitMerge ==
    /\ venues \in SeqsUpTo(VenuePool, MaxVenues)
    /\ MergeStart
    /\ NormIdle
    /\ LedgerIdle
    /\ CounterIdle
    /\ EnrichIdle

InitPair ==
    /\ \E a \in AuthorityPool, l \in LicensePool : venues = <<a, l>>
    /\ MergeStart
    /\ NormIdle
    /\ LedgerIdle
    /\ CounterIdle
    /\ EnrichIdle

InitCombine ==
    /\ \E a \in CombineAuthorityPool, l \in CombineLicensePool : venues = <<a, l>>
    /\ MergeStart
    /\ NormIdle
    /\ LedgerIdle
    /\ CounterIdle
    /\ EnrichIdle

InitRange ==
    /\ \E a \in RangeAuthorityPool, l \in RangeLicensePool : venues = <<a, l>>
    /\ MergeStart
    /\ NormIdle
    /\ LedgerIdle
    /\ CounterIdle
    /\ EnrichIdle

SpecMerge == InitMerge /\ [][NextMerge]_vars
SpecPair == InitPair /\ [][NextMerge]_vars
SpecCombine == InitCombine /\ [][NextMerge]_vars
SpecRange == InitRange /\ [][NextMerge]_vars

-----------------------------------------------------------------------------
(* Claims about the matcher *)

Done == mpc = "done"
Indices == 1..Len(venues)
EntriesOf(i) ==
    {k \in 1..Len(merged) : \E j \in 1..Len(merged[k].of) : merged[k].of[j] = i}
IsCombined(e) == e.pass > 0
Standalone(i) ==
    \E k \in 1..Len(merged) : merged[k] = [rec |-> venues[i], of |-> <<i>>, pass |-> 0]

\* C1: when merge_cross_source returns, every input record is accounted for
\* exactly once in the output: it is emitted standalone as it was given, or it
\* is one of the two constituents of exactly one combined record.
C1_EachInputOnce ==
    Done =>
        /\ \A i \in Indices : Cardinality(EntriesOf(i)) = 1
        /\ \A k \in 1..Len(merged) :
              \/ /\ ~IsCombined(merged[k])
                 /\ Len(merged[k].of) = 1
                 /\ merged[k].of[1] \in Indices
                 /\ merged[k].rec = venues[merged[k].of[1]]
              \/ /\ IsCombined(merged[k])
                 /\ Len(merged[k].of) = 2
                 /\ merged[k].of[1] \in Indices /\ merged[k].of[2] \in Indices
                 /\ venues[merged[k].of[1]].source = "dohmh"
                 /\ venues[merged[k].of[2]].source = "sla"

\* a run of three records in which one pair was combined and one record was
\* emitted standalone
C1_Witness ==
    /\ Done
    /\ Len(venues) = 3
    /\ \E k \in 1..Len(merged) : IsCombined(merged[k])
    /\ \E i \in Indices : Standalone(i)

SeqToSet(q) == {q[k] : k \in 1..Len(q)}
CombinedIn(p) == {k \in 1..Len(merged) : merged[k].pass = p}

\* C2: in every state of a run, no dohmh record and no sla record is a
\* constituent of two combined records, the records combined by pass 1 are not
\* in the lists handed to passes 2 and 3, and the records claimed by pass 2 are
\* not claimed again by pass 3.
C2_ClaimedAtMostOnce ==
    /\ \A k1, k2 \in 1..Len(merged) :
          (k1 # k2 /\ IsCombined(merged[k1]) /\ IsCombined(merged[k2])) =>
              /\ merged[k1].of[1] # merged[k2].of[1]
              /\ merged[k1].of[2] # merged[k2].of[2]
    /\ \A k \in CombinedIn(1) :
          /\ merged[k].of[1] \notin SeqToSet(unmatched_dohmh)
          /\ merged[k].of[2] \notin SeqToSet(unmatched_sla)
    /\ range_merged_sla \cap geo_merged_sla = {}
    /\ range_merged_dohmh \cap geo_merged_dohmh = {}
    /\ \A k \in CombinedIn(3) :
          /\ merged[k].of[1] \notin range_merged_dohmh
          /\ merged[k].of[2] \notin range_merged_sla

\* two sla ranges cover the house number of one dohmh record: the first claimed
\* it in pass 2 and the second was left standalone
C2_Witness ==
    /\ Done
    /\ \E k \in CombinedIn(2) : \E s \in Indices :
          /\ s # merged[k].of[2]
          /\ Standalone(s)
          /\ venues[s].source = "sla"
          /\ venues[s].address = AddrRange
          /\ venues[merged[k].of[2]].address = AddrRange
          /\ venues[s].borough = venues[merged[k].of[2]].borough

\* the Authority and the License record of SpecPair
PairA == venues[1]
PairL == venues[2]
SameNormAddr == _normalize_addr(PairA.address) = _normalize_addr(PairL.address)
SameNormBoro == _normalize_boro(PairA.borough) = _normalize_boro(PairL.borough)
OneCombined == Len(merged) = 1 /\ merged[1].rec.source = "both"
TwoStandalone == Len(merged) = 2 /\ Standalone(1) /\ Standalone(2)
PairMergedBy(p) == \E k \in 1..Len(merged) : merged[k].pass = p

\* C3 as claimed: an Authority and a License record with identical normalised
\* address and borough come out of merge as exactly one record, of source "both".
C3_ExactMatchAny == (Done /\ SameNormAddr /\ SameNormBoro) => OneCombined

\* C3 as amended: the same, for a normalised address that is not empty.
C3_ExactMatchNonEmpty ==
    (Done /\ SameNormAddr /\ SameNormBoro /\ _normalize_addr(PairA.address) # <<>>)
        => OneCombined

\* "15 Main St." in MANHATTAN and "15 MAIN STREET" in " NY", no coordinates
C3_Witness ==
    /\ Done
    /\ PairA.address = AddrMid /\ PairL.address = AddrMidFull
    /\ PairA.borough = ManhattanUpper /\ PairL.borough = NewYork
    /\ ~HasCoords(PairA) /\ ~HasCoords(PairL)
    /\ OneCombined

BothCoords == HasCoords(PairA) /\ HasCoords(PairL)
PairDist == _haversine_m(PairL.lat, PairL.lng, PairA.lat, PairA.lng)
\* more than m metres apart, where both records have coordinates
FartherThan(m) == BothCoords => PairDist > (100 * m) * (100 * m)
NoFartherThan(m) == PairDist <= (100 * m) * (100 * m)

\* the License address is a range on the Authority record's street and borough
\* that contains its house number
RangeCovers ==
    LET rng == _parse_range(PairL.address)
        one == _parse_single_number(_normalize_addr(PairA.address))
    IN  /\ rng.ok /\ one.ok
        /\ one.street = rng.street
        /\ SameNormBoro
        /\ rng.lo <= one.num /\ one.num <= rng.hi

\* C4 as claimed: records whose normalised addresses differ and whose
\* coordinates, if present, are more than 30 m apart come out as two standalone
\* records.
C4_NoMergeAny == (Done /\ ~SameNormAddr /\ FartherThan(30)) => TwoStandalone

\* C4 as amended: the same, provided the License address is not a range covering
\* the Authority record's house number on the same street and borough.
C4_NoMergeUnlessRange ==
    (Done /\ ~SameNormAddr /\ FartherThan(30) /\ ~RangeCovers) => TwoStandalone

\* similar names, 31 m apart, house 21 against the range 10-20: nothing merges
C4_Witness ==
    /\ Done
    /\ PairL.address = AddrRange /\ PairA.address = AddrHouse(21)
    /\ SameNormBoro
    /\ BothCoords /\ ~NoFartherThan(30) /\ NoFartherThan(32)
    /\ PairA.name = JoesPizza
    /\ TwoStandalone

AfterPass2 == mpc \in {"pass3", "emit", "done"}

\* C5: with the License address "10 20 MAIN ST" and the Authority record at house
\* number n of "main st", pass 2 combines the two exactly when 10 <= n <= 20 and
\* the boroughs normalise alike; in general, a License range and an Authority
\* record left over by pass 1 on the same normalised street are combined by
\* pass 2 exactly when lo <= n <= hi and the boroughs normalise alike.
C5_RangeBoundary ==
    AfterPass2 =>
        /\ \A n \in 9..MaxHouse :
              (PairL.address = AddrRange /\ PairA.address = AddrHouse(n)) =>
                  (PairMergedBy(2) <=> (10 <= n /\ n <= 20 /\ SameNormBoro))
        /\ LET rng == _parse_range(PairL.address)
               one == _parse_single_number(_normalize_addr(PairA.address))
           IN  (rng.ok /\ one.ok /\ one.street = rng.street
                       /\ 1 \in SeqToSet(unmatched_dohmh))
                   => (PairMergedBy(2) <=> RangeCovers)

\* house number 20, the upper end of the range, combined by pass 2
C5_Witness ==
    /\ Done
    /\ PairL.address = AddrRange /\ PairA.address = AddrHouse(20)
    /\ PairMergedBy(2)
    /\ OneCombined

NamesSimilar ==
    RatioAtLeast(_normalize(PairL.name), _normalize(PairA.name), GEO_NAME_THRESHOLD)
LeftForPass3 ==
    /\ 1 \in SeqToSet(StillOf(unmatched_dohmh, range_merged_dohmh))
    /\ 2 \in SeqToSet(StillOf(unmatched_sla, range_merged_sla))

\* C6: a License and an Authority record left for pass 3, both with coordinates,
\* are combined by it when they are at most 29 m apart and their names pass the
\* threshold; they are not when they are 31 m or more apart, nor when their
\* names are below the threshold.
C6_GeoBoundary ==
    (Done /\ LeftForPass3 /\ BothCoords) =>
        /\ (NoFartherThan(29) /\ NamesSimilar) => PairMergedBy(3)
        /\ ~NoFartherThan(31) => ~PairMergedBy(3)
        /\ ~NamesSimilar => ~PairMergedBy(3)

-----------------------------------------------------------------------------
(* The normaliser applied to its own output *)

MaxTokens == 3

\* words of raw addresses: house numbers, street names, suffixes, units
Words ==
    { <<"1","0">>, <<"M","a","i","n">>, <<"S","t",".">>, <<"S","a","i","n","t">>,
      <<"S","t","e">>, <<"5","A">>, <<"3","r","d">>, <<"3","0","-","1","2">>,
      <<"a","k","a">>, <<"A","v","e">>, <<"#","4">> }

MergeIdle ==
    /\ venues = <<>>
    /\ mpc = "done"
    /\ merged = <<>>
    /\ unmatched_sla = <<>>
    /\ unmatched_dohmh = <<>>
    /\ range_merged_sla = {}
    /\ range_merged_dohmh = {}
    /\ geo_merged_sla = {}
    /\ geo_merged_dohmh = {}
    /\ stats = NoStats

InitNorm ==
    /\ \E ws \in SeqsUpTo(Words, MaxTokens) : text = Join(ws)
    /\ once = Unset
    /\ twice = Unset
    /\ MergeIdle
    /\ LedgerIdle
    /\ CounterIdle
    /\ EnrichIdle

NormalizeOnce ==
    /\ ~once.set
    /\ once' = Value(_normalize_addr(text))
    /\ UNCHANGED <<text, twice, mvars, lvars, cvars, evars>>

NormalizeAgain ==
    /\ once.set
    /\ ~twice.set
    /\ twice' = Value(_normalize_addr(once.val))
    /\ UNCHANGED <<text, once, mvars, lvars, cvars, evars>>

NextNorm == NormalizeOnce \/ NormalizeAgain

SpecNorm == InitNorm /\ [][NextNorm]_vars

\* C7: normalising an already normalised address changes nothing:
\* _normalize_addr(_normalize_addr(s)) = _normalize_addr(s) for every string s.
C7_Idempotent == twice.set => twice.val = once.val

-----------------------------------------------------------------------------
(* The verification ledger (crossref.py): keys, rows, selection.  A row keeps  *)
(* its key, the three venue columns and, per provider, the status, whether    *)
(* checked_at is set and which payload columns are set (the external id, the  *)
(* review count with the rating, the coordinates); a row is known by its      *)
(* rowid, its position in the table.  The API keys are configured (check_yelp,       *)
(* check_google and check_tripadvisor return 0 at once without them), and the *)
(* process runs to the end of each function.                                  *)

YELP_DAILY_LIMIT == 4500
GOOGLE_DAILY_LIMIT == 1000
OPENTABLE_DAILY_LIMIT == 2000
TRIPADVISOR_DAILY_LIMIT == 4500

Providers == {"yelp", "google", "opentable", "tripadvisor"}

DailyLimit(p) ==
    CASE p = "yelp" -> YELP_DAILY_LIMIT
      [] p = "google" -> GOOGLE_DAILY_LIMIT
      [] p = "opentable" -> OPENTABLE_DAILY_LIMIT
      [] OTHER -> TRIPADVISOR_DAILY_LIMIT

\* checked % 200 == 0 (yelp, google), checked % 100 == 0 (opentable, tripadvisor)
\* a loop that commits every 300 and every 150 rows
CommitEverySlack(p) == IF p \in {"yelp", "google"} THEN 300 ELSE 150

CommitEvery(p) == IF p \in {"yelp", "google"} THEN 200 ELSE 100

\* the providers whose loop has an "if resp.status_code == 429" branch
HaltsOn429(p) == p \in {"yelp", "opentable", "tripadvisor"}

UpperChar(c) ==
    IF IsLower(c) THEN UpperChars[CHOOSE i \in 1..26 : LowerChars[i] = c] ELSE c
\* str.upper(), SQL UPPER()
Upper(s) == [i \in 1..Len(s) |-> UpperChar(s[i])]

venue_key(name, address, borough) ==
    Strip(Lower(name)) \o <<"|">> \o Strip(Lower(address)) \o <<"|">>
        \o Strip(Lower(borough))

\* a in b
IsSubstring(a, b) ==
    \E i \in 1..(Len(b) - Len(a) + 1) : SubSeq(b, i, i + Len(a) - 1) = a

\* _name_similarity(a, b) >= pct / 100
NameSimilarityAtLeast(a, b, pct) ==
    LET x == Strip(Lower(a))
        y == Strip(Lower(b))
    IN  IF x = y THEN 100 >= pct
        ELSE IF IsSubstring(x, y) \/ IsSubstring(y, x) THEN 85 >= pct
        ELSE RatioAtLeast(x, y, pct)

\* payload columns all NULL
NoPayload == [id |-> FALSE, count |-> FALSE, coords |-> FALSE]

\* a row as INSERT leaves it: every provider's status at its column default
NewRow(k, v) ==
    [ key |-> k, name |-> v.name, address |-> v.address, borough |-> v.borough,
      status |-> [p \in Providers |-> "unchecked"],
      checked_at |-> [p \in Providers |-> FALSE],
      payload |-> [p \in Providers |-> NoPayload] ]

KeysOf(d) == {d[i].key : i \in 1..Len(d)}

\* mutant of SyncLoop: INSERT without the test against existing
RECURSIVE SyncLoopBlind(_, _, _)
SyncLoopBlind(d, vs, i) ==
    IF i > Len(vs) THEN d
    ELSE SyncLoopBlind(
             Append(d, NewRow(venue_key(vs[i].name, vs[i].address, vs[i].borough),
                              vs[i])),
             vs, i + 1)

\* mutant of SyncLoop: INSERT OR REPLACE, an existing key gets a fresh row
RECURSIVE SyncLoopReplace(_, _, _)
SyncLoopReplace(d, vs, i) ==
    IF i > Len(vs) THEN d
    ELSE LET k == venue_key(vs[i].name, vs[i].address, vs[i].borough)
         IN  IF k \in KeysOf(d)
             THEN SyncLoopReplace(
                      [j \in 1..Len(d) |-> IF d[j].key = k THEN NewRow(k, vs[i])
                                           ELSE d[j]],
                      vs, i + 1)
             ELSE SyncLoopReplace(Append(d, NewRow(k, vs[i])), vs, i + 1)

RECURSIVE SyncLoop(_, _, _)
SyncLoop(d, vs, i) ==
    IF i > Len(vs) THEN d
    ELSE LET k == venue_key(vs[i].name, vs[i].address, vs[i].borough)
         IN  IF k \in KeysOf(d) THEN SyncLoop(d, vs, i + 1)
             ELSE SyncLoop(Append(d, NewRow(k, vs[i])), vs, i + 1)

\* new, as the loop of sync_venues counts it
RECURSIVE SyncNew(_, _, _)
SyncNew(existing, vs, i) ==
    IF i > Len(vs) THEN 0
    ELSE LET k == venue_key(vs[i].name, vs[i].address, vs[i].borough)
         IN  IF k \in existing THEN SyncNew(existing, vs, i + 1)
             ELSE 1 + SyncNew(existing \cup {k}, vs, i + 1)

\* mutant of MarkSkip: the rows outside the filter are deleted, not marked
MarkSkipDelete(d, p, filter) ==
    SelectSeq(d, LAMBDA r : ~(r.status[p] = "unchecked"
                               /\ Upper(r.borough) # Upper(filter)))

\* mutant of MarkSkip: no row is marked
MarkSkipNothing(d, p, filter) == d

\* UPDATE crossref SET google_status = 'skip'
\*     WHERE google_status = 'unchecked' AND UPPER(venue_borough) != ?
MarkSkip(d, p, filter) ==
    [i \in 1..Len(d) |->
        IF d[i].status[p] = "unchecked" /\ Upper(d[i].borough) # Upper(filter)
        THEN [d[i] EXCEPT !.status[p] = "skip"]
        ELSE d[i]]

InFilter(r, filter) == filter = NoFilter \/ Upper(r.borough) = Upper(filter)

\* a table scan returns rows in rowid order
InRowidOrder(d, S) == SelectSeq([i \in 1..Len(d) |-> i], LAMBDA i : i \in S)

\* mutant of Selected: the status column is not looked at
SelectedAny(d, p, filter) ==
    InRowidOrder(d, {i \in 1..Len(d) : InFilter(d[i], filter)})

\* SELECT ... FROM crossref WHERE <p>_status = 'unchecked' [AND UPPER(venue_borough) = ?]
Selected(d, p, filter) ==
    InRowidOrder(d, {i \in 1..Len(d) :
                    d[i].status[p] = "unchecked" /\ InFilter(d[i], filter)})

\* LIMIT n (a negative n is no limit)
Take(q, n) == IF n < 0 \/ n >= Len(q) THEN q ELSE SubSeq(q, 1, n)

\* limit = limit or <P>_DAILY_LIMIT
EffectiveLimit(p, limit) ==
    IF limit.given /\ limit.n # 0 THEN limit.n ELSE DailyLimit(p)

Unchecked(d, p) == {i \in 1..Len(d) : d[i].status[p] = "unchecked"}

-----------------------------------------------------------------------------
(* sync_venues and check_<provider> *)

MaxCalls == 2         \* check_<provider> invocations in one behaviour
MaxLimit == 1         \* limits passed run from 0 to MaxLimit

JoesShout == <<" ","J","O","E","S">>
Bronx == <<"B","r","o","n","x">>
BronxUpper == <<"B","R","O","N","X"," ">>
Queens == <<"Q","u","e","e","n","s">>
AddrA == <<"1"," ","A">>
AddrALower == <<"1"," ","a"," ">>
Stranger == <<"Z","z">>

\* the venue cache handed to sync_venues; the last entry has the key of the first
Feed ==
    << [name |-> Joes, address |-> AddrA, borough |-> Bronx],
       [name |-> TeaHouse, address |-> <<>>, borough |-> Queens],
       [name |-> JoesShout, address |-> AddrALower, borough |-> BronxUpper] >>

Limits == {NoLimit} \cup {Limit(n) : n \in 0..MaxLimit}
FiltersOf(p) == IF p = "google" THEN {NoFilter, Bronx} ELSE {NoFilter}

\* what a provider can answer to the lookup of a venue called name: the HTTP
\* status of the search (0: the request raised a network error), the names of
\* the businesses it lists (each with its id, none with a review count or
\* coordinates), and, for the second request of check_tripadvisor, how that
\* request ends: answered 200 ("none" also when it is not made), answered 429
\* ("limited"), answered 500 ("unavailable"), or a network error ("failed")
Responses(p, name) ==
    { [code |-> 200, names |-> ns, details |-> "none"] :
          ns \in {<<>>, <<name>>, <<Stranger>>} }
    \cup { [code |-> c, names |-> <<>>, details |-> "none"] : c \in {429, 500, 0} }
    \cup IF p = "tripadvisor"
         THEN { [code |-> 200, names |-> <<name>>, details |-> x] :
                    x \in {"limited", "unavailable", "failed"} }
         ELSE {}

\* what the search listed for a venue called name: nothing (or no 200 answer),
\* a business whose name is similar at the 0.45 threshold, or only others
Listed(name, resp) ==
    IF resp.code # 200 \/ resp.names = <<>> THEN "none"
    ELSE IF \E i \in 1..Len(resp.names) :
                NameSimilarityAtLeast(name, resp.names[i], 45)
    THEN "similar"
    ELSE "dissimilar"

\* found, as each check_<provider> computes it from a 200 response
Found(p, name, resp) ==
    IF p = "google" THEN Len(resp.names) > 0
    ELSE \E i \in 1..Len(resp.names) : NameSimilarityAtLeast(name, resp.names[i], 45)

\* mutant of StatusFor: a failed lookup leaves the row unchecked
StatusForRetry(p, name, resp) ==
    IF resp.code # 200 THEN "unchecked"
    ELSE IF Found(p, name, resp) THEN "found"
    ELSE "not_found"

\* the status written back when the loop does not return at this row
StatusFor(p, name, resp) ==
    IF resp.code # 200 THEN "error"
    ELSE IF p = "tripadvisor" /\ Found(p, name, resp) /\ resp.details = "failed"
    THEN "error"
    ELSE IF Found(p, name, resp) THEN "found"
    ELSE "not_found"

\* the payload columns written with the status: those of the matched candidate,
\* NULL when nothing matched; the except clause writes none
PayloadFor(p, name, resp, old) ==
    IF StatusFor(p, name, resp) = "error" THEN old
    ELSE IF ~Found(p, name, resp) THEN NoPayload
    ELSE [id |-> TRUE, count |-> FALSE, coords |-> FALSE]

\* some request of this lookup was answered 429
RateLimited(resp) == resp.code = 429 \/ resp.details = "limited"
\* some request of this lookup ended in a network error or in a status that is
\* neither 2xx nor 429
Failed(resp) == resp.code \in {500, 0} \/ resp.details \in {"unavailable", "failed"}
Succeeded(resp) == resp.code = 200 /\ resp.details = "none"

Sync(vs) ==
    /\ ~call.active
    /\ db' = SyncLoop(db, vs, 1)
    /\ committed' = db'
    /\ call' = [call EXCEPT !.synced = call.n > 0]
    /\ lastsync' = [ called |-> TRUE, venues |-> vs,
                     new |-> SyncNew(KeysOf(db), vs, 1),
                     repeat |-> lastsync.called /\ lastsync.venues = vs ]
    /\ UNCHANGED <<history, mvars, nvars, cvars, evars>>

CheckEnter(p, limit, filter, n) ==
    /\ ~call.active
    /\ LET marks == p = "google" /\ filter # NoFilter
           d1 == IF marks THEN MarkSkip(db, p, filter) ELSE db
           rows == Take(Selected(d1, p, filter), EffectiveLimit(p, limit))
       IN  /\ db' = d1
           /\ committed' = IF marks THEN d1 ELSE committed
           /\ call' = [ n |-> n, fills |-> call.fills, kind |-> "check",
                        active |-> rows # <<>>, p |-> p,
                        limit |-> limit, filter |-> filter, rows |-> rows,
                        pos |-> 1, checked |-> 0,
                        before |-> Cardinality(Unchecked(db, p)),
                        moved |-> Cardinality(Unchecked(db, p))
                                      - Cardinality(Unchecked(d1, p)),
                        lookups |-> <<>>, cands |-> <<>>, limited |-> 0,
                        failed |-> <<>>, allok |-> TRUE, ret |-> 0,
                        synced |-> FALSE ]
           /\ history' = call
           /\ lastsync' = NoSync
    /\ UNCHANGED <<mvars, nvars, cvars, evars>>

\* check_<provider> is entered, the invocations of the behaviour being counted
CheckBegin(p, limit, filter) == CheckEnter(p, limit, filter, call.n + 1)

\* check_<provider> is entered, for the first MaxCalls invocations of a behaviour
CheckStart(p, limit, filter) ==
    /\ call.n < MaxCalls
    /\ CheckBegin(p, limit, filter)

CheckRow(resp) ==
    /\ call.active
    /\ call.kind = "check"
    /\ LET i == call.rows[call.pos]
           p == call.p
       IN    LET c1 == [call EXCEPT !.lookups = Append(@, i),
                                    !.cands = Append(@, Listed(db[i].name, resp)),
                                    !.limited = IF @ = 0 /\ RateLimited(resp)
                                                THEN call.pos ELSE @,
                                    !.failed = IF Failed(resp)
                                               THEN Append(@, i) ELSE @,
                                    !.allok = @ /\ Succeeded(resp)]
             IN  IF resp.code = 429 /\ HaltsOn429(p)
                 THEN /\ db' = db
                      /\ committed' = db
                      /\ call' = [c1 EXCEPT !.active = FALSE, !.ret = call.checked]
                 ELSE LET st == StatusFor(p, db[i].name, resp)
                          d1 == [db EXCEPT ![i].status[p] = st,
                                           ![i].checked_at[p] = TRUE,
                                           ![i].payload[p] =
                                               PayloadFor(p, db[i].name, resp, @)]
                          n == call.checked + 1
                          last == call.pos = Len(call.rows)
                      IN  /\ db' = d1
                          /\ committed' = IF last \/ n % CommitEvery(p) = 0
                                          THEN d1 ELSE committed
                          /\ call' = [c1 EXCEPT
                                        !.checked = n,
                                        !.moved = IF db[i].status[p] # st
                                                  THEN @ + 1 ELSE @,
                                        !.pos = @ + 1,
                                        !.active = ~last,
                                        !.ret = IF last THEN n ELSE 0]
    /\ UNCHANGED <<history, lastsync, mvars, nvars, cvars, evars>>

\* one turn of the loop of check_<provider>: the lookup of the next selected
\* row, answered by any response the provider can give for its name
CheckStep ==
    /\ call.active
    /\ call.kind = "check"
    /\ \E resp \in Responses(call.p, db[call.rows[call.pos]].name) : CheckRow(resp)

InitLedger ==
    /\ db = <<>>
    /\ committed = <<>>
    /\ call = NoCall
    /\ history = NoCall
    /\ lastsync = NoSync
    /\ MergeIdle
    /\ NormIdle
    /\ CounterIdle
    /\ EnrichIdle

\* a behaviour is up to MaxCalls invocations of check_<provider>, with
\* sync_venues run any number of times before each of them
NextLedger ==
    \/ /\ call.n < MaxCalls
       /\ \E k \in 1..Len(Feed) : Sync(SubSeq(Feed, 1, k))
    \/ \E p \in Providers, limit \in Limits :
           \E filter \in FiltersOf(p) : CheckStart(p, limit, filter)
    \/ CheckStep

SpecLedger == InitLedger /\ [][NextLedger]_vars

\* ---------------------------------------------------------------------------
\* A long batch: a cache of more venues than the loops' commit intervals, every
\* lookup answered 200 with no listing, and a process that can be killed
\* between any two rows.
\* ---------------------------------------------------------------------------

BatchRows == 201      \* venues of the long cache

\* venue k of the long cache is called by the decimal digits of k
BatchFeed ==
    [k \in 1..BatchRows |-> [name |-> IntStr(k), address |-> <<>>, borough |-> Bronx]]

BatchResponses == {[code |-> 200, names |-> <<>>, details |-> "none"]}

BatchStep ==
    /\ call.active
    /\ call.kind = "check"
    /\ \E resp \in BatchResponses : CheckRow(resp)

\* the process dies inside the loop of check_<provider>: the connection closes
\* without a commit and SQLite rolls the open transaction back
Killed ==
    /\ call.active
    /\ call.kind = "check"
    /\ db' = committed
    /\ committed' = committed
    /\ call' = [NoCall EXCEPT !.n = call.n, !.kind = "killed", !.p = call.p,
                              !.limit = call.limit, !.filter = call.filter]
    /\ UNCHANGED <<history, lastsync, mvars, nvars, cvars, evars>>

\* the ledger as sync_venues leaves it for the long cache, whose keys are all
\* different: one unchecked row for each venue, in the order of the cache
BatchLedger ==
    [k \in 1..BatchRows |->
        NewRow(venue_key(BatchFeed[k].name, BatchFeed[k].address,
                         BatchFeed[k].borough), BatchFeed[k])]

InitBatch ==
    /\ db = BatchLedger
    /\ committed = BatchLedger
    /\ call = NoCall
    /\ history = NoCall
    /\ lastsync = NoSync
    /\ MergeIdle
    /\ NormIdle
    /\ CounterIdle
    /\ EnrichIdle

\* a behaviour is up to MaxCalls invocations of check_<provider> on the synced
\* long cache, each run to its end or killed on the way
NextBatch ==
    \/ \E p \in Providers : CheckStart(p, NoLimit, NoFilter)
    \/ BatchStep
    \/ Killed

SpecBatch == InitBatch /\ [][NextBatch]_vars

\* ---------------------------------------------------------------------------
\* One run of main without --backfill, --backfill-coords or --export:
\* sync_venues of the cache, then the four checks in the order of the code.
\* ---------------------------------------------------------------------------

RunOrder == <<"yelp", "google", "opentable", "tripadvisor">>

\* --yelp-limit, --google-limit, --opentable-limit, --tripadvisor-limit
RunLimits == {NoLimit, Limit(MaxLimit)}

\* a provider lists the venue under its own name or answers 429
RunResponses(name) ==
    { [code |-> 200, names |-> <<name>>, details |-> "none"],
      [code |-> 429, names |-> <<>>, details |-> "none"] }

RunSync ==
    /\ call.n = 0
    /\ ~lastsync.called
    /\ \E k \in 1..Len(Feed) : Sync(SubSeq(Feed, 1, k))

\* the next call of main: check_<provider> of the provider whose turn it is,
\* check_google with --google-borough
RunCheck ==
    /\ lastsync.called \/ call.n > 0
    /\ call.n < Len(RunOrder)
    /\ \E limit \in RunLimits, filter \in FiltersOf(RunOrder[call.n + 1]) :
           CheckBegin(RunOrder[call.n + 1], limit, filter)

RunStep ==
    /\ call.active
    /\ call.kind = "check"
    /\ \E resp \in RunResponses(db[call.rows[call.pos]].name) : CheckRow(resp)

NextRun ==
    \/ RunSync
    \/ RunCheck
    \/ RunStep

SpecRun == InitLedger /\ [][NextRun]_vars

\* ---------------------------------------------------------------------------
\* Resumption: sync_venues of the cache, then check_<provider> of one provider
\* invoked again and again, each invocation with its own limit and filter and
\* run to its end, its lookups answered in any way the provider can answer.
\* ---------------------------------------------------------------------------

\* the invocations are counted up to MaxCalls
Resume ==
    /\ db # <<>>
    /\ \E p \in Providers :
         /\ call.n = 0 \/ p = call.p
         /\ \E limit \in RunLimits, filter \in FiltersOf(p) :
                CheckEnter(p, limit, filter, IF call.n < MaxCalls THEN call.n + 1
                                                                 ELSE MaxCalls)

NextResume ==
    \/ RunSync
    \/ Resume
    \/ CheckStep

\* an invocation that was entered goes on to its end, and another invocation
\* follows every invocation
SpecResume ==
    /\ InitLedger
    /\ [][NextResume]_vars
    /\ WF_vars(CheckStep)
    /\ WF_vars(Resume)

-----------------------------------------------------------------------------
(* backfill_yelp, backfill_google, backfill_coords_google, backfill_coords_yelp *)

MaxFills == 1         \* backfill invocations in one behaviour

\* --backfill-limit, default 500
BACKFILL_LIMIT == 500
BackfillLimits == {1, BACKFILL_LIMIT}
BackfillKinds == {"backfill", "backfill_coords"}
BackfillProviders == {"yelp", "google"}

\* WHERE <p>_status = 'found' AND <id column> IS NOT NULL
\*     AND <review count column | lat column> IS NULL
BackfillSelected(d, kind, p) ==
    InRowidOrder(d, {i \in 1..Len(d) :
        /\ d[i].status[p] = "found"
        /\ d[i].payload[p].id
        /\ IF kind = "backfill" THEN ~d[i].payload[p].count
                                ELSE ~d[i].payload[p].coords})

\* what the details endpoint can answer: the HTTP status (0: network error) and
\* whether the body carries a review count with rating, and coordinates
BackfillResponses ==
    { [code |-> 200, count |-> c, coords |-> g, details |-> "none"] :
          c \in BOOLEAN, g \in BOOLEAN }
    \cup { [code |-> c, count |-> FALSE, coords |-> FALSE, details |-> "none"] :
              c \in {429, 500, 0} }

\* the payload after the UPDATE a 200 answer leads to, if any
Backfilled(kind, old, resp) ==
    IF kind = "backfill"
    THEN [old EXCEPT !.count = resp.count, !.coords = resp.coords]
    ELSE IF resp.coords THEN [old EXCEPT !.coords = TRUE]
    ELSE old

\* mutant of BackfillRow: a details answer without a review count demotes the row
BackfillRowDemote(kind, p, row, resp) ==
    [row EXCEPT !.payload[p] = Backfilled(kind, @, resp),
                !.status[p] = IF resp.count THEN @ ELSE "not_found"]

\* UPDATE crossref SET <payload columns> WHERE venue_key = ?
BackfillRow(kind, p, row, resp) ==
    [row EXCEPT !.payload[p] = Backfilled(kind, @, resp)]

BackfillStart(kind, p, limit) ==
    /\ ~call.active
    /\ call.fills < MaxFills
    /\ LET rows == Take(BackfillSelected(db, kind, p), limit)
       IN  call' = [ n |-> call.n, fills |-> call.fills + 1, kind |-> kind,
                     active |-> rows # <<>>, p |-> p,
                     limit |-> Limit(limit), filter |-> NoFilter, rows |-> rows,
                     pos |-> 1, checked |-> 0,
                     before |-> Cardinality(Unchecked(db, p)), moved |-> 0,
                     lookups |-> <<>>, cands |-> <<>>, limited |-> 0,
                     failed |-> <<>>, allok |-> TRUE, ret |-> 0, synced |-> FALSE ]
    /\ history' = call
    /\ lastsync' = NoSync
    /\ UNCHANGED <<db, committed, mvars, nvars, cvars, evars>>

BackfillStep ==
    /\ call.active
    /\ call.kind \in BackfillKinds
    /\ LET i == call.rows[call.pos]
           p == call.p
       IN  \E resp \in BackfillResponses :
             LET c1 == [call EXCEPT !.lookups = Append(@, i),
                                    !.limited = IF @ = 0 /\ RateLimited(resp)
                                                THEN call.pos ELSE @,
                                    !.failed = IF Failed(resp)
                                               THEN Append(@, i) ELSE @,
                                    !.allok = @ /\ Succeeded(resp)]
             IN  IF resp.code = 429 /\ p = "yelp"
                 THEN /\ db' = db
                      /\ committed' = db
                      /\ call' = [c1 EXCEPT !.active = FALSE, !.ret = call.checked]
                 ELSE LET d1 == IF resp.code = 200
                                THEN [db EXCEPT ![i] =
                                                    BackfillRow(call.kind, p, @, resp)]
                                ELSE db
                          counts == \/ call.kind = "backfill"
                                    \/ resp.code = 200 /\ resp.coords
                          n == IF counts THEN call.checked + 1 ELSE call.checked
                          last == call.pos = Len(call.rows)
                          due == /\ n % 100 = 0
                                 /\ call.kind = "backfill_coords" => n > 0
                                 /\ call.kind = "backfill" => counts
                      IN  /\ db' = d1
                          /\ committed' = IF last \/ due THEN d1 ELSE committed
                          /\ call' = [c1 EXCEPT !.checked = n,
                                                !.pos = @ + 1,
                                                !.active = ~last,
                                                !.ret = IF last THEN n ELSE 0]
    /\ UNCHANGED <<history, lastsync, mvars, nvars, cvars, evars>>

\* sync_venues, the checks of the two providers that have a backfill, and the
\* four backfill functions, in any order: up to MaxCalls checks and MaxFills
\* backfills, with sync_venues run any number of times before each of them
NextFill ==
    \/ /\ call.n + call.fills < MaxCalls + MaxFills
       /\ \E k \in 1..Len(Feed) : Sync(SubSeq(Feed, 1, k))
    \/ \E p \in BackfillProviders :
           \E filter \in FiltersOf(p) : CheckStart(p, NoLimit, filter)
    \/ CheckStep
    \/ \E kind \in BackfillKinds, p \in BackfillProviders, limit \in BackfillLimits :
           BackfillStart(kind, p, limit)
    \/ BackfillStep

SpecFill == InitLedger /\ [][NextFill]_vars

\* ---- backfill on a checked ledger ----
\* what check_<p> can have left in the columns of one provider for a row: the
\* column defaults, a lookup without match, or a match with the payload of the
\* matched candidate, each of whose fields the search answer carries or not
\* (biz.get("id"), biz.get("review_count"), coords.get("latitude"))
CheckedColumns ==
    { [status |-> "unchecked", checked_at |-> FALSE, payload |-> NoPayload],
      [status |-> "not_found", checked_at |-> TRUE, payload |-> NoPayload],
      [status |-> "found", checked_at |-> TRUE,
       payload |-> [id |-> FALSE, count |-> FALSE, coords |-> TRUE]] }
    \cup { [status |-> "found", checked_at |-> TRUE,
            payload |-> [id |-> TRUE, count |-> c, coords |-> g]] :
               c \in BOOLEAN, g \in BOOLEAN }

\* the row of venue v with these columns for yelp and for google
CheckedRow(v, y, g) ==
    [NewRow(venue_key(v.name, v.address, v.borough), v) EXCEPT
        !.status["yelp"] = y.status, !.status["google"] = g.status,
        !.checked_at["yelp"] = y.checked_at, !.checked_at["google"] = g.checked_at,
        !.payload["yelp"] = y.payload, !.payload["google"] = g.payload]

InitRefill ==
    /\ \E y1 \in CheckedColumns, g1 \in CheckedColumns,
          y2 \in CheckedColumns, g2 \in CheckedColumns :
          db = <<CheckedRow(Feed[1], y1, g1), CheckedRow(Feed[2], y2, g2)>>
    /\ committed = db
    /\ call = NoCall
    /\ history = NoCall
    /\ lastsync = NoSync
    /\ MergeIdle
    /\ NormIdle
    /\ CounterIdle
    /\ EnrichIdle

\* one of the four backfill functions, run on a ledger the checks have filled
NextRefill ==
    \/ \E kind \in BackfillKinds, p \in BackfillProviders, limit \in BackfillLimits :
           BackfillStart(kind, p, limit)
    \/ BackfillStep

SpecRefill == InitRefill /\ [][NextRefill]_vars

-----------------------------------------------------------------------------
(* The visitor counter of counter/counter.py.                              *)
(*                                                                         *)
(* _hit is followed line by line, and _save file by file, so that calls of *)
(* several request threads interleave and the process can be killed        *)
(* between any two lines.  os.replace puts the new content of a file in    *)
(* place in one step; the .tmp files are read by nothing and are left out. *)
(* A killed process comes back as the module is imported again (lines      *)
(* 22-24) and runs _load.                                                  *)

MaxCrashes == 1

\* values of the X-Real-IP header
Addresses == {"192.0.2.1", "192.0.2.2"}

\* the lines of .counter.ips that _load keeps
LoadedIps(file) ==
    IF file.exists THEN {line \in file.lines : line # ""} ELSE {}

\* the number _load reads from .counter
LoadedCount(file) == IF file.exists THEN file.text ELSE 0

\* _load()
Load ==
    /\ main = "load"
    /\ _count' = LoadedCount(COUNTER_FILE)
    /\ _seen_ips' = LoadedIps(IPS_FILE)
    /\ loaded' = [done |-> TRUE, count |-> LoadedCount(COUNTER_FILE),
                  ips |-> LoadedIps(IPS_FILE)]
    /\ main' = "serving"
    /\ UNCHANGED <<_lock, COUNTER_FILE, IPS_FILE, thr, crashes, mvars, nvars, lvars, evars>>

\* do_GET of /api/hit up to the call of _hit(ip)
Request(t, ip) ==
    /\ main = "serving"
    /\ thr[t].pc = "idle"
    /\ thr' = [thr EXCEPT ![t] = [pc |-> "lock", ip |-> ip, ret |-> NoRet]]
    /\ UNCHANGED <<_count, _seen_ips, _lock, COUNTER_FILE, IPS_FILE, main, loaded,
                   crashes, mvars, nvars, lvars, evars>>

\* a thread that enters the body of _hit without taking _lock
AcquireRacy(t) ==
    /\ main = "serving"
    /\ thr[t].pc = "lock"
    /\ thr' = [thr EXCEPT ![t].pc = "test"]
    /\ UNCHANGED <<_count, _seen_ips, _lock, COUNTER_FILE, IPS_FILE, main, loaded,
                   crashes, mvars, nvars, lvars, evars>>

\* with _lock:
Acquire(t) ==
    /\ main = "serving"
    /\ thr[t].pc = "lock"
    /\ _lock = {}
    /\ _lock' = {t}
    /\ thr' = [thr EXCEPT ![t].pc = "test"]
    /\ UNCHANGED <<_count, _seen_ips, COUNTER_FILE, IPS_FILE, main, loaded,
                   crashes, mvars, nvars, lvars, evars>>

\* if ip in _seen_ips: return _count, False
HitTest(t) ==
    /\ main = "serving"
    /\ thr[t].pc = "test"
    /\ IF thr[t].ip \in _seen_ips
         THEN /\ thr' = [thr EXCEPT ![t].pc = "idle",
                                    ![t].ret = [path |-> "/api/hit",
                                                count |-> _count, new |-> FALSE]]
              /\ _lock' = _lock \ {t}
         ELSE /\ thr' = [thr EXCEPT ![t].pc = "add"]
              /\ UNCHANGED _lock
    /\ UNCHANGED <<_count, _seen_ips, COUNTER_FILE, IPS_FILE, main, loaded,
                   crashes, mvars, nvars, lvars, evars>>

\* _seen_ips.add(ip)
HitAdd(t) ==
    /\ main = "serving"
    /\ thr[t].pc = "add"
    /\ _seen_ips' = _seen_ips \cup {thr[t].ip}
    /\ thr' = [thr EXCEPT ![t].pc = "incr"]
    /\ UNCHANGED <<_count, _lock, COUNTER_FILE, IPS_FILE, main, loaded, crashes,
                   mvars, nvars, lvars, evars>>

\* _count += 1
HitIncr(t) ==
    /\ main = "serving"
    /\ thr[t].pc = "incr"
    /\ _count' = _count + 1
    /\ thr' = [thr EXCEPT ![t].pc = "save"]
    /\ UNCHANGED <<_seen_ips, _lock, COUNTER_FILE, IPS_FILE, main, loaded, crashes,
                   mvars, nvars, lvars, evars>>

\* _save(), first half: str(_count) into .counter
SaveCount(t) ==
    /\ main = "serving"
    /\ thr[t].pc = "save"
    /\ COUNTER_FILE' = [exists |-> TRUE, text |-> _count]
    /\ thr' = [thr EXCEPT ![t].pc = "save_ips"]
    /\ UNCHANGED <<_count, _seen_ips, _lock, IPS_FILE, main, loaded, crashes,
                   mvars, nvars, lvars, evars>>

\* _save(), second half: the addresses, one a line, into .counter.ips
SaveIps(t) ==
    /\ main = "serving"
    /\ thr[t].pc = "save_ips"
    /\ IPS_FILE' = [exists |-> TRUE, lines |-> _seen_ips]
    /\ thr' = [thr EXCEPT ![t].pc = "return"]
    /\ UNCHANGED <<_count, _seen_ips, _lock, COUNTER_FILE, main, loaded, crashes,
                   mvars, nvars, lvars, evars>>

\* return _count, True
HitReturn(t) ==
    /\ main = "serving"
    /\ thr[t].pc = "return"
    /\ thr' = [thr EXCEPT ![t].pc = "idle",
                          ![t].ret = [path |-> "/api/hit",
                                      count |-> _count, new |-> TRUE]]
    /\ _lock' = _lock \ {t}
    /\ UNCHANGED <<_count, _seen_ips, COUNTER_FILE, IPS_FILE, main, loaded,
                   crashes, mvars, nvars, lvars, evars>>

\* do_GET of /api/count: _count is read without the lock
GetCount(t) ==
    /\ main = "serving"
    /\ thr[t].pc = "idle"
    /\ thr' = [thr EXCEPT ![t].ret = [path |-> "/api/count",
                                      count |-> _count, new |-> FALSE]]
    /\ UNCHANGED <<_count, _seen_ips, _lock, COUNTER_FILE, IPS_FILE, main, loaded,
                   crashes, mvars, nvars, lvars, evars>>

\* the process is killed and started again: the files stay, the globals are
\* those of a fresh import
Crash ==
    /\ main = "serving"
    /\ crashes < MaxCrashes
    /\ crashes' = crashes + 1
    /\ _count' = 0
    /\ _seen_ips' = {}
    /\ _lock' = {}
    /\ thr' = [t \in Threads |-> Idle(NoIp)]
    /\ main' = "load"
    /\ UNCHANGED <<COUNTER_FILE, IPS_FILE, loaded, mvars, nvars, lvars, evars>>

InitCounter ==
    /\ CounterIdle
    /\ MergeIdle
    /\ NormIdle
    /\ LedgerIdle
    /\ EnrichIdle

NextCounter ==
    \/ Load
    \/ \E t \in Threads, ip \in Addresses : Request(t, ip)
    \/ \E t \in Threads : Acquire(t)
    \/ \E t \in Threads : HitTest(t)
    \/ \E t \in Threads : HitAdd(t)
    \/ \E t \in Threads : HitIncr(t)
    \/ \E t \in Threads : SaveCount(t)
    \/ \E t \in Threads : SaveIps(t)
    \/ \E t \in Threads : HitReturn(t)
    \/ \E t \in Threads : GetCount(t)
    \/ Crash

SpecCounter == InitCounter /\ [][NextCounter]_vars

-----------------------------------------------------------------------------
(* Enrichment: build.py build, from the manual overrides to the dietary tags. *)
(* A venue is [name, address, borough, lat, lng, cuisine] and the keys the    *)
(* stamper and the tagger add to it: xr_y, xr_g ("" for an absent key), yr,   *)
(* yrt, gr, grt (Unset for an absent key), yelp_cats ([] for an absent key)   *)
(* and diet_src ({} for an absent key; the key diet is its sorted key list).  *)
(* Coordinates are in units of 1e-5 degree; 0 stands for a deleted key.       *)

\* (lat_lo, lat_hi, lng_lo, lng_hi) per borough
_BORO_BOUNDS ==
    { <<<<"m","a","n","h","a","t","t","a","n">>,
        <<4069800, 4088200, -7402500, -7390700>>>>,
      <<<<"b","r","o","o","k","l","y","n">>,
        <<4056600, 4074000, -7404500, -7383000>>>>,
      <<<<"q","u","e","e","n","s">>,
        <<4054000, 4081200, -7396300, -7370000>>>>,
      <<<<"b","r","o","n","x">>,
        <<4078500, 4091700, -7393500, -7374800>>>>,
      <<<<"s","t","a","t","e","n"," ","i","s","l","a","n","d">>,
        <<4049000, 4065200, -7426000, -7405000>>>> }

\* _BORO_BOUNDS.get(boro): None is <<>>
NoBounds == <<>>
BoundsOf(boro) ==
    IF \E e \in _BORO_BOUNDS : e[1] = boro
    THEN (CHOOSE e \in _BORO_BOUNDS : e[1] = boro)[2]
    ELSE NoBounds

\* lat_lo <= lat <= lat_hi and lng_lo <= lng <= lng_hi
Inside(bounds, lat, lng) ==
    /\ bounds[1] <= lat /\ lat <= bounds[2]
    /\ bounds[3] <= lng /\ lng <= bounds[4]

\* del v["lat"]; del v["lng"]
DropCoords(v) == [v EXCEPT !.lat = 0, !.lng = 0]

\* the lookup key of the overrides: (name, address, borough)
OverrideKey(v) ==
    <<Lower(Strip(v.name)), Lower(Strip(v.address)), _normalize_boro(v.borough)>>

\* lines 438-447: drop_coords for the venues the overrides list names
ApplyOverrides ==
    /\ bpc = "merged"
    /\ all_venues' =
           [i \in DOMAIN all_venues |->
               IF OverrideKey(all_venues[i]) \in drop_coords_keys
               THEN DropCoords(all_venues[i]) ELSE all_venues[i]]
    /\ bpc' = "overridden"
    /\ UNCHANGED <<drop_coords_keys, XREF_DB, hms_entries, knm_entries,
                   mvars, nvars, lvars, cvars>>

\* mutant of Validated: the bounding-box loop drops nothing
ValidatedKept(v) == v

\* lines 464-478, one venue of the bounding-box loop
Validated(v) ==
    LET bounds == BoundsOf(_normalize_boro(v.borough)) IN
    IF ~HasCoords(v) THEN v
    ELSE IF bounds = NoBounds THEN v
    ELSE IF ~Inside(bounds, v.lat, v.lng) THEN DropCoords(v)
    ELSE v

ValidateCoords ==
    /\ bpc = "overridden"
    /\ all_venues' = [i \in DOMAIN all_venues |-> Validated(all_venues[i])]
    /\ bpc' = "validated"
    /\ UNCHANGED <<drop_coords_keys, XREF_DB, hms_entries, knm_entries,
                   mvars, nvars, lvars, cvars>>

\* lines 513-522: the first of Google's and Yelp's coordinates that is given
\* and passes `not bounds or inside`
Accepted(bounds, slat, slng) ==
    /\ slat # 0 /\ slng # 0
    /\ bounds = NoBounds \/ Inside(bounds, slat, slng)

Upgraded(v, f) ==
    LET bounds == BoundsOf(_normalize_boro(v.borough)) IN
    IF Accepted(bounds, f.google_lat, f.google_lng)
    THEN [v EXCEPT !.lat = f.google_lat, !.lng = f.google_lng]
    ELSE IF Accepted(bounds, f.yelp_lat, f.yelp_lng)
    THEN [v EXCEPT !.lat = f.yelp_lat, !.lng = f.yelp_lng]
    ELSE v

\* `if f.get(x) is not None: v[y] = f[x]`
Given(old, new) == IF new.set THEN new ELSE old

\* lines 492-526, one venue of the stamping loop
Stamped(v, flags) ==
    LET k == venue_key(v.name, v.address, v.borough) IN
    IF k \notin DOMAIN flags THEN v
    ELSE LET f == flags[k] IN
         Upgraded([v EXCEPT !.xr_y = f.yelp,
                            !.xr_g = f.google,
                            !.yr = Given(@, f.yelp_reviews),
                            !.yrt = Given(@, f.yelp_rating),
                            !.gr = Given(@, f.google_reviews),
                            !.grt = Given(@, f.google_rating),
                            !.yelp_cats = IF f.yelp_categories # <<>>
                                          THEN f.yelp_categories ELSE @],
                  f)

Stamp ==
    /\ bpc = "validated"
    /\ all_venues' =
           IF XREF_DB.exists
           THEN [i \in DOMAIN all_venues |-> Stamped(all_venues[i], XREF_DB.flags)]
           ELSE all_venues
    /\ bpc' = "stamped"
    /\ UNCHANGED <<drop_coords_keys, XREF_DB, hms_entries, knm_entries,
                   mvars, nvars, lvars, cvars>>

\* s.split(",")[0]
RECURSIVE BeforeComma(_)
BeforeComma(s) ==
    IF s = <<>> \/ Head(s) = "," THEN <<>>
    ELSE <<Head(s)>> \o BeforeComma(Tail(s))

\* lines 567-582: a hit in hms_by_addr or in hms_by_name
_match_hms(v) ==
    LET boro == _normalize_boro(v.borough)
        na == _normalize_addr(v.address)
        nn == _normalize(v.name)
    IN  /\ boro # <<>>
        /\ \E i \in 1..Len(hms_entries) :
              LET h == hms_entries[i]
                  h_na == _normalize_addr(BeforeComma(h.address))
                  h_nn == _normalize(h.name)
              IN  /\ h.borough = boro
                  /\ \/ h_na # <<>> /\ h_na = na
                     \/ h_nn # <<>> /\ h_nn = nn

_KNM_CELL == 30               \* 0.0003 degrees
KnmCellOf(x) == IF x >= 0 THEN x \div _KNM_CELL ELSE -((-x) \div _KNM_CELL)

\* lines 584-609: a best entry of the 3x3 cells, or a single entry of that name
_match_knm(v) ==
    LET v_name == _normalize(v.name)
        Near(k) ==
            /\ k.lat # 0 /\ k.lng # 0
            /\ KnmCellOf(k.lat) - KnmCellOf(v.lat) \in {-1, 0, 1}
            /\ KnmCellOf(k.lng) - KnmCellOf(v.lng) \in {-1, 0, 1}
            /\ _haversine_m(v.lat, v.lng, k.lat, k.lng) <= 8000 * 8000
            /\ RatioAtLeast(v_name, _normalize(k.name), 45)
        hits == {i \in 1..Len(knm_entries) :
                    /\ v_name # <<>>
                    /\ _normalize(knm_entries[i].name) = v_name}
    IN  \/ /\ HasCoords(v)
           /\ \E i \in 1..Len(knm_entries) : Near(knm_entries[i])
        \/ Cardinality(hits) = 1

\* Yelp category alias -> diet tag, with the two tags the second loop allows
_YELP_DIET ==
    { <<"vegan", "vegan">>, <<"vegetarian", "vegetarian">>,
      <<"veganraw", "vegan">>, <<"raw_food", "vegan">>,
      <<"gluten_free", "gluten-free">>,
      <<"halal", "halal">>, <<"kosher", "kosher">> }

Vegetarian == <<"V","e","g","e","t","a","r","i","a","n">>
Vegan == <<"V","e","g","a","n">>
KosherCuisine == <<"J","e","w","i","s","h","/","K","o","s","h","e","r">>
Word_halal == <<"h","a","l","a","l">>
Word_kosher == <<"k","o","s","h","e","r">>

\* DOHMH cuisine -> diet tag
_DOHMH_DIET == { <<Vegetarian, "vegetarian">>, <<Vegan, "vegan">> }

\* `if tag not in diets: diets[tag] = src`, when the test `on` holds
Put(diets, on, tag, src) ==
    IF on /\ tag \notin DOMAIN diets
    THEN Update(diets, [t \in {tag} |-> src]) ELSE diets

\* lines 631-681: the dict diets of one venue, before `vegan implies vegetarian`
Suggested(v) ==
    LET cl == Lower(v.cuisine)
        nl == Lower(v.name)
        a == Put(NoMeta, _match_hms(v), "halal", "HMS USA")
        b == Put(a, _match_knm(v), "kosher", "KosherNearMe")
        c == Put(Put(b, v.cuisine = Vegetarian, "vegetarian", "DOHMH"),
                 v.cuisine = Vegan, "vegan", "DOHMH")
        d == Put(Put(c, IsSubstring(Word_halal, cl), "halal", "DOHMH"),
                 IsSubstring(Word_kosher, cl) \/ v.cuisine = KosherCuisine,
                 "kosher", "DOHMH")
        e == Put(Put(d, IsSubstring(Word_halal, nl), "halal", "Name"),
                 IsSubstring(Word_kosher, nl), "kosher", "Name")
        f == Put(Put(e, IsSubstring(Lower(Vegan), nl), "vegan", "Name"),
                 IsSubstring(Lower(Vegetarian), nl), "vegetarian", "Name")
        yelp == {al[2] : al \in {x \in _YELP_DIET :
                    \E j \in 1..Len(v.yelp_cats) : v.yelp_cats[j] = x[1]}}
    IN  Update(f, [t \in yelp \ DOMAIN f |-> "Yelp"])

\* lines 683-685: vegan implies vegetarian
Diets(v) ==
    LET diets == Suggested(v) IN
    IF "vegan" \in DOMAIN diets /\ "vegetarian" \notin DOMAIN diets
    THEN Update(diets, [t \in {"vegetarian"} |-> diets["vegan"]])
    ELSE diets

\* lines 630-689: v["diet_src"] of every venue
TagDiets ==
    /\ bpc = "stamped"
    /\ all_venues' =
           [i \in DOMAIN all_venues |->
               [all_venues[i] EXCEPT !.diet_src = Diets(all_venues[i])]]
    /\ bpc' = "tagged"
    /\ UNCHANGED <<drop_coords_keys, XREF_DB, hms_entries, knm_entries,
                   mvars, nvars, lvars, cvars>>

NextEnrich == ApplyOverrides \/ ValidateCoords \/ Stamp \/ TagDiets

\* ---- the inputs of SpecEnrich ----
MaxEnrich == 2                \* venues in all_venues

Downtown == At(0, 0)                              \* inside Manhattan and Brooklyn
GooglePt == At(3, 4)
YelpPt == At(-5, 2)
FarPt == [lat |-> 4085000, lng |-> -7388000]      \* inside the Bronx only

EVenue(nm, addr, boro, pt, cuisine) ==
    [name |-> nm, address |-> addr, borough |-> boro, lat |-> pt.lat,
     lng |-> pt.lng, cuisine |-> cuisine, xr_y |-> "", xr_g |-> "",
     yr |-> Unset, yrt |-> Unset, gr |-> Unset, grt |-> Unset,
     yelp_cats |-> <<>>, diet_src |-> NoMeta]

HalalCart == <<"H","A","L","A","L"," ","C","a","r","t">>

EnrichPool ==
    { EVenue(Joes, AddrA, Manhattan, Downtown, Vegan),
      EVenue(Vegetarian, AddrMid, Brooklyn, FarPt, Vegan),
      EVenue(TeaHouse, AddrMid, Stranger, Downtown, <<>>),
      EVenue(HalalCart, <<>>, Bronx, Nowhere, <<>>),
      EVenue(Joes, AddrA, <<>>, Nowhere, KosherCuisine) }

\* a row of the ledger as get_flags returns it
Flag(g, y, cats) ==
    [yelp |-> IF y = Nowhere THEN "not_found" ELSE "found",
     google |-> IF g = Nowhere THEN "not_found" ELSE "found",
     yelp_reviews |-> IF y = Nowhere THEN Unset ELSE Value(12),
     yelp_rating |-> IF y = Nowhere THEN Unset ELSE Value(4),
     google_reviews |-> IF g = Nowhere THEN Unset ELSE Value(0),
     google_rating |-> Unset,
     google_lat |-> g.lat, google_lng |-> g.lng,
     yelp_lat |-> y.lat, yelp_lng |-> y.lng,
     yelp_categories |-> cats]

FlagPool ==
    { Flag(g, y, cats) : g \in {Nowhere, GooglePt, FarPt},
                         y \in {Nowhere, YelpPt, FarPt},
                         cats \in {<<>>, <<"halal", "vegetarian">>} }

KeysOfVenues(vs) ==
    {venue_key(vs[i].name, vs[i].address, vs[i].borough) : i \in 1..Len(vs)}

\* no database, or a table with the same row for none, one or all of the venues
Ledgers(vs) ==
    {NoLedger} \cup
    { [exists |-> TRUE, flags |-> [k \in K |-> f]] :
          K \in {{}, KeysOfVenues(<<vs[1]>>), KeysOfVenues(vs)}, f \in FlagPool }

HmsFeeds ==
    { <<>>,
      << [name |-> HalalCart,
          address |-> <<"9"," ","B",","," ","B","r","o","n","x">>,
          borough |-> <<"b","r","o","n","x">>] >> }

KnmFeeds ==
    { <<>>, << [name |-> Joes, lat |-> At(20, -10).lat, lng |-> At(20, -10).lng] >> }

InitEnrich ==
    /\ all_venues \in SeqsUpTo(EnrichPool, MaxEnrich)
    /\ bpc = "merged"
    /\ drop_coords_keys \in {{}, {OverrideKey(all_venues[1])}}
    /\ XREF_DB \in Ledgers(all_venues)
    /\ hms_entries \in HmsFeeds
    /\ knm_entries \in KnmFeeds
    /\ MergeIdle
    /\ NormIdle
    /\ LedgerIdle
    /\ CounterIdle

SpecEnrich == InitEnrich /\ [][NextEnrich]_vars


-----------------------------------------------------------------------------
(* Claims about the ledger *)

Min(a, b) == IF a <= b THEN a ELSE b
Terminal == {"found", "not_found", "error", "skip"}

\* the last two invocations were check_<p>(limit=N) twice, nothing in between,
\* no region filter, and every request of both was answered 200
TwiceInSuccession ==
    /\ history.n > 0
    /\ ~call.active
    /\ call.p = history.p
    /\ call.limit = history.limit
    /\ call.limit.given
    /\ call.filter = NoFilter /\ history.filter = NoFilter
    /\ ~history.synced
    /\ history.allok /\ call.allok

\* C8: when check_provider(limit=N) is called twice in succession with no sync in
\* between and every external call succeeds, each call moves at most N rows out
\* of unchecked, the two returned counts add up to min(2N, rows unchecked before
\* the first call), and the second call looks up no row the first looked up.
C8_Resumable ==
    TwiceInSuccession =>
        /\ history.moved <= history.limit.n
        /\ call.moved <= call.limit.n
        /\ history.ret + call.ret = Min(2 * call.limit.n, history.before)
        /\ SeqToSet(history.lookups) \cap SeqToSet(call.lookups) = {}

\* this step issued the lookup of row i for provider p
LookedUp(i, p) ==
    /\ call.active
    /\ call.p = p
    /\ call'.lookups = Append(call.lookups, i)

\* C9: check_<provider> only ever moves a status from unchecked to found,
\* not_found, error or skip: a status that is not unchecked is never changed by
\* any step, and no lookup is issued for a row whose status for that provider is
\* not unchecked.
C9_OnlyFromUnchecked ==
    [][\A i \in 1..Len(db), p \in Providers :
          /\ db[i].status[p] # "unchecked" => db'[i].status[p] = db[i].status[p]
          /\ db'[i].status[p] # db[i].status[p] => db'[i].status[p] \in Terminal
          /\ LookedUp(i, p) => db[i].status[p] = "unchecked"]_vars

\* a second invocation for the same provider has run to its end and looked up
\* another row, leaving alone the one the first invocation settled
C9_Witness ==
    /\ history.n > 0
    /\ ~call.active
    /\ call.p = history.p
    /\ call.lookups # <<>>
    /\ \E i \in SeqToSet(history.lookups) :
          /\ db[i].status[call.p] \in Terminal
          /\ i \notin SeqToSet(call.lookups)

\* C10: for every provider, a lookup answered 429 ends the batch at once: what
\* was written so far is committed, the rate-limited row and every later
\* selected row keep status unchecked, no further lookup is issued, and the call
\* returns the number of rows checked before it.
C10_RateLimitHalts ==
    call.limited > 0 =>
        /\ ~call.active
        /\ Len(call.lookups) = call.limited
        /\ committed = db
        /\ \A j \in call.limited..Len(call.rows) :
              db[call.rows[j]].status[call.p] = "unchecked"
        /\ call.ret = call.limited - 1

\* this step is the lookup of row i and a request of it ended in a network
\* error or in a status that is neither 2xx nor 429
LookupFailed(i) ==
    /\ call.active
    /\ call'.failed = Append(call.failed, i)

\* C11: when the lookup of a row fails with a network error or a non-2xx answer
\* other than 429, check_<provider> writes status error and a checked_at
\* timestamp for that provider on that row, changes nothing else in the table,
\* counts the row as checked and goes on to the next selected row.
C11_FailureRecorded ==
    [][\A i \in 1..Len(db) :
          LookupFailed(i) =>
              /\ db' = [db EXCEPT ![i].status[call.p] = "error",
                                  ![i].checked_at[call.p] = TRUE]
              /\ call'.checked = call.checked + 1
              /\ call'.pos = call.pos + 1
              /\ call'.active = (call.pos < Len(call.rows))]_vars

-----------------------------------------------------------------------------
(* Claims about sync_venues *)

\* the keys of a venue list
KeysOfList(vs) ==
    {venue_key(vs[i].name, vs[i].address, vs[i].borough) : i \in 1..Len(vs)}

RowsWithKey(d, k) == {i \in 1..Len(d) : d[i].key = k}

\* this step is the call sync_venues(conn, vs)
SyncStep(vs) ==
    /\ ~call.active
    /\ lastsync'.called
    /\ lastsync'.venues = vs

\* C12: sync_venues called again with the list of the call just before it
\* returns 0 and leaves the table as it was; and whatever the list, a key that
\* occurs in it several times is inserted and counted once: the call returns the
\* number of its distinct keys that were not in the table, adds that many rows,
\* and the table never holds two rows with one key.
C12_SyncIdempotent ==
    [][\A n \in 1..Len(Feed) :
          LET vs == SubSeq(Feed, 1, n)
              fresh == KeysOfList(vs) \ KeysOf(db)
          IN  SyncStep(vs) =>
                  /\ lastsync.called /\ lastsync.venues = vs =>
                         /\ lastsync'.new = 0
                         /\ db' = db
                         /\ committed' = committed
                  /\ lastsync'.new = Cardinality(fresh)
                  /\ Len(db') = Len(db) + Cardinality(fresh)
                  /\ \A k \in KeysOf(db') \cup KeysOfList(vs) :
                         Cardinality(RowsWithKey(db', k)) = 1]_vars

\* sync_venues has just been called a second time with the same list, one that
\* names a key twice, on a table whose rows have been checked in between or
\* before
C12_Witness ==
    /\ lastsync.repeat
    /\ lastsync.new = 0
    /\ Cardinality(KeysOfList(lastsync.venues)) < Len(lastsync.venues)
    /\ \E i \in 1..Len(db), p \in Providers : db[i].status[p] = "found"

\* C13: sync_venues changes no row that exists: after the call the row of every
\* key that was in the table has the venue columns, statuses, checked_at and
\* payload it had, whatever they were; every row the call inserts is unchecked
\* for every provider, with no checked_at and no payload.
C13_SyncFrame ==
    [][\A n \in 1..Len(Feed) :
          SyncStep(SubSeq(Feed, 1, n)) =>
              /\ \A i \in 1..Len(db) :
                     \A j \in RowsWithKey(db', db[i].key) : db'[j] = db[i]
              /\ \A j \in 1..Len(db') :
                     db'[j].key \notin KeysOf(db) =>
                         /\ \A p \in Providers : db'[j].status[p] = "unchecked"
                         /\ \A p \in Providers : ~db'[j].checked_at[p]
                         /\ \A p \in Providers : db'[j].payload[p] = NoPayload]_vars

\* sync_venues has just inserted a row into a table that holds a row with a
\* found status and its payload for one provider and an error or skip status
\* for another
C13_Witness ==
    /\ lastsync.called
    /\ lastsync.new > 0
    /\ \E i \in 1..Len(db) :
          /\ \E p \in Providers : db[i].status[p] = "found" /\ db[i].payload[p].id
          /\ \E p \in Providers : db[i].status[p] \in {"error", "skip"}
    /\ \E j \in 1..Len(db) : \A p \in Providers : db[j].status[p] = "unchecked"

-----------------------------------------------------------------------------
(* Claims about rows staying and about backfill *)

\* C14: the keys of the table only grow: no step of sync_venues, of a
\* check_<provider> (run to its end, cut short by a 429 or with failed lookups)
\* or of a backfill removes a key, from the connection's view of the table or
\* from what is committed.
C14_KeysOnlyGrow ==
    [][/\ KeysOf(db) \subseteq KeysOf(db')
       /\ KeysOf(committed) \subseteq KeysOf(committed')
       /\ KeysOf(committed) \subseteq KeysOf(db')
       /\ Len(db') >= Len(db)]_vars

\* two keys are in the table after a check cut short by a 429, whose rows a
\* backfill then went through
C14_Witness ==
    /\ Cardinality(KeysOf(committed)) = 2
    /\ history.kind = "check"
    /\ history.limited > 0
    /\ call.kind \in BackfillKinds
    /\ ~call.active
    /\ call.lookups # <<>>

\* this step belongs to a backfill invocation
BackfillActs ==
    /\ call'.kind \in BackfillKinds
    /\ call'.fills > call.fills \/ call.active

\* C15: no step of backfill_yelp, backfill_google, backfill_coords_google or
\* backfill_coords_yelp changes a status or a checked_at of any row, whether the
\* details request is answered, fails or is rate-limited; nor does it add or
\* remove a row.
C15_BackfillKeepsStatus ==
    [][BackfillActs =>
          /\ Len(db') = Len(db)
          /\ \A i \in 1..Len(db) :
                /\ db'[i].status = db[i].status
                /\ db'[i].checked_at = db[i].checked_at
                /\ db'[i].key = db[i].key]_vars

\* a backfill has gone through two found rows: the details request of one was
\* answered without a review count or failed or was rate-limited, the other row
\* got its review count
C15_Witness ==
    /\ call.kind = "backfill"
    /\ ~call.active
    /\ Len(call.lookups) = 2
    /\ ~call.allok \/ \E i \in SeqToSet(call.lookups) : ~db[i].payload[call.p].count
    /\ \E i \in SeqToSet(call.lookups) :
          db[i].payload[call.p].count /\ db[i].status[call.p] = "found"

-----------------------------------------------------------------------------
(* Claims about candidate matching *)

\* C16: for every provider, a row looked up by check_<provider> is recorded
\* found only if the search listed a business whose name similarity to the
\* venue name is at least 0.45, and is recorded not_found when every business
\* listed is below that threshold.
C16_FoundOnlyIfSimilar ==
    call.kind = "check" =>
        \A j \in 1..Len(call.cands) :
            LET st == db[call.lookups[j]].status[call.p]
            IN  /\ st = "found" => call.cands[j] = "similar"
                /\ call.cands[j] = "dissimilar" => st = "not_found"

-----------------------------------------------------------------------------
(* Claims about records of other sources and about block-lot addresses *)

Others == {i \in Indices : venues[i].source \notin {"dohmh", "sla"}}

\* C17: a record whose source is neither dohmh nor sla never enters the lists
\* handed to passes 2 and 3, is never claimed, is never a constituent of a
\* combined record, and when merge_cross_source returns it is in the output
\* once, with every field as it was given.
C17_OthersPassThrough ==
    \A i \in Others :
        /\ i \notin SeqToSet(unmatched_sla) \cup SeqToSet(unmatched_dohmh)
        /\ i \notin range_merged_sla \cup range_merged_dohmh
        /\ i \notin geo_merged_sla \cup geo_merged_dohmh
        /\ \A k \in 1..Len(merged) :
              IsCombined(merged[k]) => i \notin SeqToSet(merged[k].of)
        /\ Done => Standalone(i) /\ Cardinality(EntriesOf(i)) = 1

\* a greenmarket record with the address, borough and coordinates of an sla
\* record was emitted as given while that sla record was combined with a dohmh
\* record of the same bucket
C17_Witness ==
    /\ Done
    /\ \E i \in Others : \E k \in CombinedIn(1) :
          /\ Standalone(i)
          /\ KeyOf(venues, i) = KeyOf(venues, merged[k].of[2])
          /\ venues[i].lat = venues[merged[k].of[2]].lat
          /\ venues[i].lng = venues[merged[k].of[2]].lng

\* the address begins with digits, a hyphen and a digit
BlockLotPrefix(a) ==
    \E i \in 1..(Len(a) - 2) :
        /\ \A j \in 1..i : IsDigit(a[j])
        /\ a[i + 1] = "-"
        /\ IsDigit(a[i + 2])

\* C18: an sla record whose address begins with a digits-digits block-lot
\* prefix is not parsed as a range and is never combined by pass 2.
C18_BlockLotNoRange ==
    \A i \in Indices :
        (venues[i].source = "sla" /\ BlockLotPrefix(venues[i].address)) =>
            /\ ~_parse_range(venues[i].address).ok
            /\ i \notin range_merged_sla
            /\ \A k \in CombinedIn(2) : merged[k].of[2] # i

\* "10-20 MAIN ST" met a dohmh record at 15 main street of the same borough in
\* pass 2, and both were emitted standalone
C18_Witness ==
    /\ Done
    /\ \E i, d \in Indices :
          /\ venues[i].source = "sla"
          /\ venues[i].address = AddrBlockLot
          /\ venues[d].source = "dohmh"
          /\ venues[d].address = AddrMid
          /\ _normalize_boro(venues[d].borough) = _normalize_boro(venues[i].borough)
          /\ d \in SeqToSet(unmatched_dohmh)
          /\ i \in SeqToSet(unmatched_sla)
          /\ Standalone(i)
          /\ Standalone(d)

-----------------------------------------------------------------------------
(* Claims about the visitor counter *)

\* the addresses added to _seen_ips since _load
AddedSinceStart == _seen_ips \ loaded.ips

\* no thread stands between `_seen_ips.add(ip)` and `_count += 1`
NoHalfHit == \A t \in Threads : thr[t].pc # "incr"

\* thread t leaves _hit in this step
Returns(t) ==
    /\ main' = "serving"
    /\ thr[t].pc \in {"test", "return"}
    /\ thr'[t].pc = "idle"

\* C19: under any interleaving of _hit calls the first hit of an address adds
\* it to the seen set, raises _count by one and returns new = true; every later
\* hit of it leaves _count alone and returns new = false; so, outside the two
\* lines that add and count, _count is the value loaded at start plus the
\* number of addresses added to the seen set since.
C19_CountsEachIpOnce ==
    [][ /\ (main' = "serving" /\ NoHalfHit') =>
               _count' = loaded'.count + Cardinality(AddedSinceStart')
        /\ \A t \in Threads :
              /\ Returns(t) =>
                    /\ thr'[t].ret.count = _count'
                    /\ _count' = _count
                    /\ thr[t].ip \in _seen_ips
                    /\ thr'[t].ret.new = (thr[t].ip \in AddedSinceStart
                                            /\ thr[t].pc = "return")
              /\ (thr[t].pc = "test" /\ thr'[t].pc = "add") =>
                    thr[t].ip \notin _seen_ips
              /\ (thr[t].pc = "incr" /\ thr'[t].pc = "save") =>
                    /\ _count' = _count + 1
                    /\ thr[t].ip \in AddedSinceStart
        /\ (main' = "serving" /\ main = "serving" /\ _count' # _count) =>
               \E t \in Threads : thr[t].pc = "incr" /\ thr'[t].pc = "save"
      ]_vars

\* two threads asked for the same address at the same time: one was told
\* new = true, the other waited for the lock and was told new = false with the
\* same count
C19_Witness ==
    /\ main = "serving"
    /\ crashes = 0
    /\ \E t, u \in Threads :
          /\ t # u
          /\ thr[t].pc = "idle"
          /\ thr[u].pc = "idle"
          /\ thr[t].ip = thr[u].ip
          /\ thr[t].ret = [path |-> "/api/hit", count |-> 1, new |-> TRUE]
          /\ thr[u].ret = [path |-> "/api/hit", count |-> 1, new |-> FALSE]
          /\ _count = 1
          /\ _seen_ips = {thr[t].ip}

\* C20: whenever the process is started, the count and the address set that
\* _load reads agree: the count is the number of addresses in the set (the
\* files start absent), so an address that is in the persisted count is in the
\* persisted set.
C20_SaveAtomic ==
    loaded.done => loaded.count = Cardinality(loaded.ips)

-----------------------------------------------------------------------------
(* Claims about the residue of the passes, pass 3, _make_combined and the     *)
(* range parser                                                               *)

\* record i is a constituent of a record combined by pass p
CombinedBy(i, p) ==
    \E k \in CombinedIn(p) : merged[k].of[1] = i \/ merged[k].of[2] = i

\* C21: once pass 1 is over, every sla record it did not combine is in the list
\* pass 2 goes through, and every sla or dohmh record with coordinates that
\* passes 1 and 2 did not combine is in the lists pass 3 works on; records left
\* over in a bucket whose first dohmh/sla pair was combined are no exception.
C21_PassResidue ==
    mpc # "pass1" =>
        \A i \in Indices :
            /\ (venues[i].source = "sla" /\ ~CombinedBy(i, 1)) =>
                   i \in SeqToSet(unmatched_sla)
            /\ (/\ venues[i].source \in {"sla", "dohmh"}
                /\ HasCoords(venues[i])
                /\ ~CombinedBy(i, 1)
                /\ ~CombinedBy(i, 2)) =>
                   i \in SeqToSet(StillOf(unmatched_sla, range_merged_sla))
                           \cup SeqToSet(StillOf(unmatched_dohmh, range_merged_dohmh))

\* the lists pass 3 works on
Still3Sla == StillOf(unmatched_sla, range_merged_sla)
Still3Dohmh == StillOf(unmatched_dohmh, range_merged_dohmh)

PosIn(q, x) == CHOOSE k \in 1..Len(q) : q[k] = x

\* the dohmh records pass 3 had combined before it came to sla record s
ClaimedBefore(s) ==
    {merged[k].of[1] :
        k \in {j \in CombinedIn(3) :
                  PosIn(Still3Sla, merged[j].of[2]) < PosIn(Still3Sla, s)}}

\* the unclaimed dohmh records in the cell of s and the 8 cells around it
Candidates(s) ==
    SeqToSet(ScanOrder(venues, Still3Dohmh, GridCell(venues[s]), 1)) \ ClaimedBefore(s)

DistTo(s, d) == _haversine_m(venues[s].lat, venues[s].lng, venues[d].lat, venues[d].lng)

Closest(s) == {d \in Candidates(s) : \A e \in Candidates(s) : DistTo(s, d) <= DistTo(s, e)}

\* within 30 m and the names pass the threshold
Eligible(s, d) ==
    /\ WithinRadius(DistTo(s, d))
    /\ RatioAtLeast(_normalize(venues[s].name), _normalize(venues[d].name),
                    GEO_NAME_THRESHOLD)

\* C22: after pass 3, an sla record it went through with coordinates is
\* combined with the closest unclaimed dohmh record of its cell and the 8
\* neighbouring cells if that record is within 30 m and passes the name
\* threshold, and is left uncombined otherwise: a farther candidate does not
\* take the place of the closest one.
C22_ClosestOrNone ==
    mpc \in {"emit", "done"} =>
        \A s \in SeqToSet(Still3Sla) :
            HasCoords(venues[s]) =>
                IF \E d \in Closest(s) : Eligible(s, d)
                THEN \E k \in CombinedIn(3) :
                        /\ merged[k].of[2] = s
                        /\ merged[k].of[1] \in Closest(s)
                        /\ Eligible(s, merged[k].of[1])
                ELSE ~CombinedBy(s, 3)

\* the calendar date of a YYYY-MM-DD string, as <<year, month, day>>
DateOf(o) == <<ToInt(SubSeq(o, 1, 4)), ToInt(SubSeq(o, 6, 7)), ToInt(SubSeq(o, 9, 10))>>

\* date a is no later than date b
NoLater(a, b) ==
    \/ a[1] < b[1]
    \/ a[1] = b[1] /\ a[2] < b[2]
    \/ a[1] = b[1] /\ a[2] = b[2] /\ a[3] <= b[3]

\* the opened date the claim asks of a combined record
EarlierOpened(a, l) ==
    IF a = <<>> THEN l
    ELSE IF l = <<>> THEN a
    ELSE IF NoLater(DateOf(a), DateOf(l)) THEN a ELSE l

NoRepeats(q) == \A i, j \in 1..Len(q) : q[i] = q[j] => i = j

\* C28: in every step the input records stay as they are, and every combined
\* record, whichever pass made it, has source "both", the dohmh record's name,
\* address, borough and coordinates, the sla record's name as sla_name, the
\* dohmh tags in their order followed by the sla tags not among them, without
\* duplicates, the dohmh meta overridden by the sla meta where the keys collide,
\* and as opened the earlier of the two dates if both have one, else the one
\* there is.
C28_CombinedRecord ==
    [][ /\ venues' = venues
        /\ \A k \in 1..Len(merged') :
              merged'[k].pass > 0 =>
                 LET a == venues[merged'[k].of[1]]
                     l == venues[merged'[k].of[2]]
                     c == merged'[k].rec
                     extra == SelectSeq(l.tags, LAMBDA t : t \notin SeqToSet(a.tags))
                 IN  /\ c.source = "both"
                     /\ c.name = a.name /\ c.address = a.address
                     /\ c.borough = a.borough
                     /\ c.lat = a.lat /\ c.lng = a.lng
                     /\ c.sla_name = l.name
                     /\ c.tags = a.tags \o extra
                     /\ NoRepeats(c.tags)
                     /\ DOMAIN c.meta = DOMAIN a.meta \cup DOMAIN l.meta
                     /\ \A key \in DOMAIN l.meta : c.meta[key] = l.meta[key]
                     /\ \A key \in DOMAIN a.meta \ DOMAIN l.meta :
                           c.meta[key] = a.meta[key]
                     /\ c.opened = EarlierOpened(a.opened, l.opened)
      ]_vars

\* pass 3 combined two records that share the tag "bar" and the meta key
\* "phone" and of which the sla record has the earlier date
C28_Witness ==
    /\ Done
    /\ PairMergedBy(3)
    /\ PairA.tags = <<"bar", "food">> /\ PairL.tags = <<"liquor", "bar">>
    /\ merged[1].rec.tags = <<"bar", "food", "liquor">>
    /\ PairA.meta = [grade |-> "A", phone |-> "1"]
    /\ PairL.meta = [license |-> "OP", phone |-> "2"]
    /\ merged[1].rec.meta = [grade |-> "A", phone |-> "2", license |-> "OP"]
    /\ PairA.opened = Date(2019, <<"1","1">>, <<"2","0">>)
    /\ PairL.opened = Date(2019, <<"0","3">>, <<"0","1">>)
    /\ merged[1].rec.opened = PairL.opened

\* the two leading numbers of the License address and the house number of the
\* Authority record of SpecRange
SpanLo == ToInt(Split(PairL.address)[1])
SpanHi == ToInt(Split(PairL.address)[2])
House == ToInt(Split(PairA.address)[1])
Plausible == SpanLo <= SpanHi /\ SpanHi - SpanLo <= 30

\* C30: the range parser accepts "lo hi street" exactly when lo <= hi and
\* hi - lo <= 30 (a spread of 30 and lo = hi included); a License record whose
\* range is rejected is not combined by pass 2 and goes on to pass 3, which
\* combines it or leaves it to be emitted standalone; a License record whose
\* range is accepted is combined by pass 2 with the Authority record whose house
\* number lies in it.
C30_PlausibleRange ==
    /\ _parse_range(PairL.address).ok <=> Plausible
    /\ AfterPass2 =>
          /\ ~Plausible =>
                /\ ~PairMergedBy(2)
                /\ 2 \in SeqToSet(Still3Sla)
                /\ Done => (PairMergedBy(3) \/ TwoStandalone)
          /\ (Plausible /\ SpanLo <= House /\ House <= SpanHi) => PairMergedBy(2)

\* the range 10..40, of spread exactly 30, combined by pass 2 with house 40
C30_Witness ==
    /\ Done
    /\ SpanLo = 10 /\ SpanHi = 40 /\ House = 40
    /\ PairMergedBy(2)
    /\ OneCombined

-----------------------------------------------------------------------------
(* Claims about the normaliser, continued *)

\* the address with every word "Saint" written "St"
SaintAsSt(s) ==
    LET ws == Split(s)
    IN  Join([i \in 1..Len(ws) |->
                 IF ws[i] = <<"S","a","i","n","t">> THEN <<"S","t">> ELSE ws[i]])

\* C29: an address normalises to the same string whether a word of it is
\* spelled "Saint" or "St".
C29_SaintCollapses ==
    once.set => once.val = _normalize_addr(SaintAsSt(text))

-----------------------------------------------------------------------------
(* Claims about the ledger, continued *)

\* C23: an invocation of check_<provider> that was given a limit, 0 included,
\* issues lookups for at most that many rows.
C23_AtMostLimit ==
    (call.kind = "check" /\ call.limit.given) => Len(call.lookups) <= call.limit.n

\* C24: the row updates of check_<provider> that are written and not yet
\* committed, the one the running loop is writing included, are never more than
\* the provider's commit interval (200 for yelp and google, 100 for opentable
\* and tripadvisor); a kill leaves each of them unchecked for that provider and
\* in the queue the next invocation selects
Written == {i \in 1..Len(db) : db[i] # committed[i]}
InFlight == IF call.active /\ call.kind = "check" THEN {call.rows[call.pos]} ELSE {}
Interval(p) == IF p \in {"yelp", "google"} THEN 200 ELSE 100
Requeued(d, p, limit, filter) ==
    SeqToSet(Take(Selected(d, p, filter), EffectiveLimit(p, limit)))
C24_BoundedLoss ==
    [][ /\ Cardinality(Written \cup InFlight) <= Interval(call.p)
        /\ call'.kind = "killed" /\ call.kind = "check" =>
              LET queue == Requeued(db', call.p, call.limit, call.filter)
              IN  \A i \in Written \cup InFlight :
                      /\ db'[i].status[call.p] = "unchecked"
                      /\ i \in queue ]_vars
\* after a kill, the next invocation has a full interval of rows written and
\* not committed
C24_Witness ==
    /\ call.active
    /\ call.kind = "check"
    /\ Cardinality(Written \cup InFlight) = Interval(call.p)
    /\ call.n = MaxCalls
    /\ history.kind = "killed"

\* C25: in one run of main the providers are checked in the order yelp, google,
\* opentable, tripadvisor, each after the batch of the one before has ended, and
\* a rate-limit response ends the batch of the provider that gave it: no lookup
\* of that batch follows it
C25_OneAfterAnother ==
    /\ call.kind = "check" => call.p = RunOrder[call.n]
    /\ call.n > 1 => history.p = RunOrder[call.n - 1] /\ ~history.active
    /\ call.limited # 0 => ~call.active /\ Len(call.lookups) = call.limited

\* C27: when check_google is entered with a borough filter, every row that is
\* unchecked for it and lies outside the filter becomes skip, in the table and
\* in the committed table, with no lookup and whatever the limit; a row that is
\* skip for a provider stays skip, is in no later selection of that provider and
\* is never looked up for it
Entered == call'.n = call.n + 1 /\ call'.kind = "check"
C27_SkippedForGood ==
    [][ /\ Entered /\ call'.filter # NoFilter =>
              \A i \in 1..Len(db) :
                  db[i].status[call'.p] = "unchecked" /\ ~InFilter(db[i], call'.filter) =>
                      /\ db'[i].status[call'.p] = "skip"
                      /\ committed'[i].status[call'.p] = "skip"
                      /\ call'.lookups = <<>>
        /\ \A i \in 1..Len(db) : \A p \in Providers :
              db[i].status[p] = "skip" =>
                  /\ db'[i].status[p] = "skip"
                  /\ call'.kind = "check" /\ call'.p = p =>
                        /\ i \notin SeqToSet(call'.rows)
                        /\ i \notin SeqToSet(call'.lookups) ]_vars
\* a row skipped by a filtered invocation, and a later invocation of the same
\* provider without filter
C27_Witness ==
    /\ call.kind = "check"
    /\ call.n = MaxCalls
    /\ call.filter = NoFilter
    /\ history.kind = "check"
    /\ history.p = call.p
    /\ history.filter # NoFilter
    /\ \E i \in 1..Len(db) : db[i].status[call.p] = "skip"

\* C26: when the provider answers 429 in finitely many invocations only, the
\* repeated invocations of check_<provider> end with no row of the filter
\* unchecked for that provider, for good; and a lookup whose result is written
\* is the lookup of a row that was unchecked and is not unchecked after it, and
\* no row goes back to unchecked, so that no row has two such lookups
Calm == call.limited = 0
NoneLeft ==
    /\ ~call.active
    /\ \A i \in 1..Len(db) :
          call.kind = "check" /\ InFilter(db[i], call.filter) =>
              db[i].status[call.p] # "unchecked"
AnsweredOnce ==
    /\ \A i \in 1..Len(db) : \A p \in Providers :
          db[i].status[p] # "unchecked" => db'[i].status[p] # "unchecked"
    /\ call.active /\ call.kind = "check" /\ db' # db =>
          /\ db[call.rows[call.pos]].status[call.p] = "unchecked"
          /\ db'[call.rows[call.pos]].status[call.p] # "unchecked"
          /\ \A i \in 1..Len(db) : i # call.rows[call.pos] => db'[i] = db[i]
-----------------------------------------------------------------------------
(* Claims about the normaliser: the block-and-lot prefix *)

\* the first word of the text and the place of its hyphen
HeadWord == Split(text)[1]
Hyphen == CHOOSE k \in 1..Len(HeadWord) :
              HeadWord[k] = "-" /\ \A j \in 1..(k - 1) : HeadWord[j] # "-"
\* the text begins with digits-digits
BlockAndLot ==
    /\ Split(text) # <<>>
    /\ \E k \in 1..Len(HeadWord) : HeadWord[k] = "-"
    /\ AllDigits(SubSeq(HeadWord, 1, Hyphen - 1))
    /\ AllDigits(SubSeq(HeadWord, Hyphen + 1, Len(HeadWord)))

\* C31: for a text that begins with digits-digits, the normalised address
\* begins with the two numbers: the second is not stripped as a trailing unit
C31_BlockLotKept ==
    once.set /\ BlockAndLot =>
        LET words == Split(once.val) IN
        /\ Len(words) >= 2
        /\ words[1] = SubSeq(HeadWord, 1, Hyphen - 1)
        /\ words[2] = SubSeq(HeadWord, Hyphen + 1, Len(HeadWord))

-----------------------------------------------------------------------------
(* Claims about the name similarity of pass 3 and of the ledger *)

\* thresholds at which the two scores are compared, in percent
SimilarityPercents == {30, 45, 60, 85, 100}

\* C32: the similarity pass 3 computes for the names of a License and an
\* Authority record is the score _name_similarity of the ledger gives for the
\* same names: at every threshold both are at least the threshold or both are
\* below it (1.0 for equal names, 0.85 when one contains the other, the ratio
\* otherwise)
C32_SameSimilarity ==
    Done =>
        \A pct \in SimilarityPercents :
            RatioAtLeast(_normalize(PairL.name), _normalize(PairA.name), pct)
                = NameSimilarityAtLeast(PairL.name, PairA.name, pct)

-----------------------------------------------------------------------------
(* Claims about the statistics of the matcher *)

\* C33: when merge_cross_source returns, total_merges is the sum of the three
\* pass counters, post_merge is pre_merge less total_merges and is the length
\* of the output, and each pass counter is the number of combined records of
\* the output that the pass created
C33_StatsAgree ==
    Done =>
        /\ stats.total_merges = stats.pass1 + stats.pass2 + stats.pass3
        /\ stats.pre_merge = Len(venues)
        /\ stats.post_merge = stats.pre_merge - stats.total_merges
        /\ stats.post_merge = Len(merged)
        /\ stats.pass1 = Cardinality(CombinedIn(1))
        /\ stats.pass2 = Cardinality(CombinedIn(2))
        /\ stats.pass3 = Cardinality(CombinedIn(3))
        /\ stats.total_merges = Cardinality({e \in 1..Len(merged) : IsCombined(merged[e])})
\* a run that combined a pair and left a record standalone
C33_Witness ==
    /\ Done
    /\ stats.total_merges = 1
    /\ stats.post_merge = 2
    /\ stats.pre_merge = 3


-----------------------------------------------------------------------------
(* Claims about the enrichment *)

Stamping == bpc = "validated" /\ bpc' = "stamped"
FlagsOf(v) == XREF_DB.flags[venue_key(v.name, v.address, v.borough)]
Flagged(v) ==
    /\ XREF_DB.exists
    /\ venue_key(v.name, v.address, v.borough) \in DOMAIN XREF_DB.flags
Moved(v, w) == w.lat # v.lat \/ w.lng # v.lng

\* a provider's coordinates are given and inside the box of the venue's borough
Qualifies(v, slat, slng) ==
    LET bounds == BoundsOf(_normalize_boro(v.borough)) IN
    /\ slat # 0 /\ slng # 0
    /\ bounds # NoBounds
    /\ Inside(bounds, slat, slng)

\* C34: the stamper replaces a venue's coordinates only by coordinates of
\* Google or Yelp that lie inside the bounding box of the venue's borough:
\* by Google's when they are given and inside, by Yelp's only when Google's
\* are absent or outside.
C34_UpgradeInsideBox ==
    [][Stamping =>
        \A i \in DOMAIN all_venues :
            LET v == all_venues[i]
                w == all_venues'[i]
            IN  Moved(v, w) =>
                  /\ Flagged(v)
                  /\ LET f == FlagsOf(v) IN
                     IF Qualifies(v, f.google_lat, f.google_lng)
                     THEN w.lat = f.google_lat /\ w.lng = f.google_lng
                     ELSE /\ Qualifies(v, f.yelp_lat, f.yelp_lng)
                          /\ w.lat = f.yelp_lat /\ w.lng = f.yelp_lng]_vars


AfterEnrichment == bpc \in {"stamped", "tagged"}
Recognized(v) == BoundsOf(_normalize_boro(v.borough)) # NoBounds

\* C39: once the overrides, the bounding-box filter and the stamper have run,
\* every venue that has coordinates and a borough with a bounding box has its
\* coordinates inside that box, with a ledger database and without one.
C39_CoordsInBorough ==
    AfterEnrichment =>
        \A i \in DOMAIN all_venues :
            LET v == all_venues[i] IN
            HasCoords(v) /\ Recognized(v) =>
                Inside(BoundsOf(_normalize_boro(v.borough)), v.lat, v.lng)

\* a ledger whose Google coordinates were rejected and whose Yelp coordinates
\* were taken for one venue, next to a venue the filter left without coordinates
C39_Witness ==
    /\ bpc = "stamped"
    /\ XREF_DB.exists
    /\ \E i, j \in DOMAIN all_venues :
          /\ Recognized(all_venues[i])
          /\ Flagged(all_venues[i])
          /\ FlagsOf(all_venues[i]).google_lat = FarPt.lat
          /\ all_venues[i].lat = YelpPt.lat
          /\ Recognized(all_venues[j])
          /\ ~HasCoords(all_venues[j])


DietSources == {"HMS USA", "KosherNearMe", "DOHMH", "Name", "Yelp"}

\* authoritative certification > registry cuisine > name keyword > Yelp category
Priority(src) ==
    CASE src \in {"HMS USA", "KosherNearMe"} -> 1
      [] src = "DOHMH" -> 2
      [] src = "Name" -> 3
      [] src = "Yelp" -> 4

\* the source names the tag for the venue itself
Names(src, tag, v) ==
    CASE src = "HMS USA" -> tag = "halal" /\ _match_hms(v)
      [] src = "KosherNearMe" -> tag = "kosher" /\ _match_knm(v)
      [] src = "DOHMH" ->
            \/ <<v.cuisine, tag>> \in _DOHMH_DIET
            \/ tag = "halal" /\ IsSubstring(Word_halal, Lower(v.cuisine))
            \/ tag = "kosher" /\ IsSubstring(Word_kosher, Lower(v.cuisine))
      [] src = "Name" ->
            \/ tag = "halal" /\ IsSubstring(Word_halal, Lower(v.name))
            \/ tag = "kosher" /\ IsSubstring(Word_kosher, Lower(v.name))
            \/ tag = "vegan" /\ IsSubstring(Lower(Vegan), Lower(v.name))
            \/ tag = "vegetarian" /\ IsSubstring(Lower(Vegetarian), Lower(v.name))
      [] src = "Yelp" ->
            \E j \in 1..Len(v.yelp_cats) : <<v.yelp_cats[j], tag>> \in _YELP_DIET

\* the source suggests the tag: it names it, or names vegan for vegetarian
Suggests(src, tag, v) ==
    \/ Names(src, tag, v)
    \/ tag = "vegetarian" /\ Names(src, "vegan", v)

\* C35: the source recorded for a dietary tag of a venue is a source that
\* suggests the tag, and no source of higher priority suggests it.
C35_HighestPriority ==
    bpc = "tagged" =>
        \A i \in DOMAIN all_venues :
            LET v == all_venues[i] IN
            \A tag \in DOMAIN v.diet_src :
                /\ Suggests(v.diet_src[tag], tag, v)
                /\ \A src \in DietSources :
                      Suggests(src, tag, v) =>
                          Priority(v.diet_src[tag]) <= Priority(src)


-----------------------------------------------------------------------------
(* The grid of pass 3 *)

\* the cell of record d is the cell of record s or one of its 8 neighbours
Adjacent(s, d) ==
    \E n \in 1..Len(Neighbourhood) :
        GridCell(venues[d]) = <<GridCell(venues[s])[1] + Neighbourhood[n][1],
                               GridCell(venues[s])[2] + Neighbourhood[n][2]>>

\* C36: when pass 3 starts, every Authority record left unclaimed that has
\* coordinates and is at most 30 m from a License record left unmatched that
\* has coordinates lies in the License record's cell or in one of the 8 cells
\* around it, and is among the candidates the scan of that record visits.
C36_WithinRadiusInGrid ==
    AfterPass2 =>
        \A s \in SeqToSet(Still3Sla), d \in SeqToSet(Still3Dohmh) :
            ( /\ HasCoords(venues[s]) /\ HasCoords(venues[d])
              /\ WithinRadius(_haversine_m(venues[s].lat, venues[s].lng,
                                           venues[d].lat, venues[d].lng)) )
            => /\ Adjacent(s, d)
               /\ d \in SeqToSet(ScanOrder(venues, Still3Dohmh,
                                           GridCell(venues[s]), 1))


-----------------------------------------------------------------------------
(* The columns of a committed row *)

Statuses == {"unchecked", "found", "not_found", "error", "skip"}
Answered == {"found", "not_found", "error"}

\* C37: in every committed state of the ledger each provider status of each
\* row is unchecked, found, not_found, error or skip, and the row has its
\* checked_at for a provider exactly when that status is found, not_found or
\* error.
C37_StatusAndTimestamp ==
    \A i \in 1..Len(committed), p \in Providers :
        /\ committed[i].status[p] \in Statuses
        /\ committed[i].checked_at[p] <=> committed[i].status[p] \in Answered

\* a committed table with a skipped row, a failed lookup and an answered one
C37_Witness ==
    /\ \E i \in 1..Len(committed) : committed[i].status["google"] = "skip"
    /\ \E i \in 1..Len(committed), p \in Providers :
          committed[i].status[p] = "error"
    /\ \E i \in 1..Len(committed), p \in Providers :
          committed[i].status[p] \in {"found", "not_found"}


-----------------------------------------------------------------------------
(* Backfill and the payload already there *)

PayloadFields == {"count", "coords"}

\* C38: a step of a backfill function changes only rows whose status for the
\* provider is found, asks only about such rows, and leaves every payload value
\* (review count with rating, coordinates) that was present present.
C38_BackfillOnlyFills ==
    [][BackfillActs /\ call.active =>
          /\ db[call.rows[call.pos]].status[call.p] = "found"
          /\ \A i \in 1..Len(db) :
                /\ db'[i] # db[i] => db[i].status[call.p] = "found"
                /\ \A p \in Providers : \A f \in PayloadFields :
                      db[i].payload[p][f] => db'[i].payload[p][f]]_vars

====
